---- MODULE Spec2Model ----
(***************************************************************************)
(* Model of the cross-source article grouping engine                       *)
(* (src/services/articleGrouper.js): the similarity scorer                 *)
(* calculateSimilarity and the three passes of groupSimilarArticles        *)
(* (assignment, merge, per-source deduplication) with the final            *)
(* multi-source / single-source ordering.                                  *)
(*                                                                         *)
(* Representation.                                                         *)
(*  - A text (title, description) is the sequence of its whitespace        *)
(*    separated raw tokens; <<>> is the missing/empty string and the       *)
(*    token " " stands for a run of whitespace, so <<" ">> is a string     *)
(*    that is truthy in JavaScript and empty after trim().                 *)
(*  - Scores are exact fixed-point numbers: the integer Unit is 1.0.       *)
(*    JavaScript computes them in binary floating point; the model does    *)
(*    not reproduce rounding in the last bits.                             *)
(*  - publishedAt is a record: missing, an unparsable string (NaN), or a   *)
(*    date counted in whole days.                                          *)
(*  - Object identity of an article is its field id (its position in the   *)
(*    caller's list).                                                      *)
(***************************************************************************)
EXTENDS Integers, Sequences, FiniteSets, TLC

VARIABLES
    articles,             \* the caller's list (argument of groupSimilarArticles)
    hasArticles,          \* FALSE: the argument is undefined/null
    similarityThreshold,  \* argument, in hundredths (20 is 0.20)
    pc,                   \* position inside groupSimilarArticles / the scorer
    loopIndex,            \* the loop variable i of the running pass (1-based)
    sortedArticles,       \* line 239
    used,                 \* line 236, indexes of sortedArticles
    groups,               \* line 235, phase 1 groups
    mergedGroups,         \* line 308
    merged,               \* line 309, indexes of groups
    deduplicatedGroups,   \* line 396
    result,               \* the returned list
    similarities,         \* calculateSimilarity on the pairs of the caller's list
    article1,             \* arguments of one calculateSimilarity call
    article2,
    score,                \* its return value
    routePc,              \* position of one GET /aggregate request
    fetchResults,         \* the three provider promises of the request
    warnings,             \* warnings of the request
    groupsToSummarize,    \* the groups chosen for summarization
    batchStart,           \* i of the summarization loop (1-based)
    summaries,            \* the summarizeArticleGroup promises of the current batch
    summarizedGroups      \* summarizedGroups of the request

vars == <<articles, hasArticles, similarityThreshold, pc, loopIndex, sortedArticles, used,
          groups, mergedGroups, merged, deduplicatedGroups, result, similarities,
          article1, article2, score,
          routePc, fetchResults, warnings, groupsToSummarize, batchStart, summaries,
          summarizedGroups>>

groupingVars == <<articles, hasArticles, similarityThreshold, loopIndex, sortedArticles, used,
                  groups, mergedGroups, merged, deduplicatedGroups, result,
                  similarities>>

scorerVars == <<article1, article2, score>>

routeVars == <<routePc, fetchResults, warnings, groupsToSummarize, batchStart, summaries,
               summarizedGroups>>

\* No request is being served.
RouteIdle ==
    /\ routePc = "idle"
    /\ fetchResults = <<>>
    /\ warnings = {}
    /\ groupsToSummarize = <<>>
    /\ batchStart = 0
    /\ summaries = <<>>
    /\ summarizedGroups = <<>>

----------------------------------------------------------------------------
(* Bounds and fixed-point scale *)

\* Longest caller list that Init draws.
MaxArticles == 3

\* lcm(1..12): every Jaccard denominator (the size of a union of two term
\* sets) that the inputs below produce divides it, so each quotient is exact
\* (checked by JaccardExact).
JaccardUnit == 8 * 9 * 5 * 7 * 11

\* 1.0 in fixed point; divisible by 10000 so that every weight used by the
\* code (0.98, 0.02, 0.95, 0.05 * 0.15, 0.85 * threshold) is exact.
Unit == 10000 * JaccardUnit

\* n/d of 1.0, for d dividing 10000.
Frac(n, d) == (Unit \div d) * n

\* Math.max where the code calls Math.min.
MinAsMax(a, b) == IF a >= b THEN a ELSE b

Min(a, b) == IF a <= b THEN a ELSE b
Max(a, b) == IF a >= b THEN a ELSE b

Range(s) == {s[i] : i \in DOMAIN s}

----------------------------------------------------------------------------
(* Text handling: normalizeText, extractKeyTerms, jaccardSimilarity *)

\* toLowerCase() and the punctuation strip of normalizeText on one raw token.
NormalizeWord(w) ==
    CASE w = "City"     -> "city"
      [] w = "Council"  -> "council"
      [] w = "Approves" -> "approves"
      [] w = "New"      -> "new"
      [] w = "Budget"   -> "budget"
      [] w = "Local"    -> "local"
      [] w = "The"      -> "the"
      [] w = "News"     -> "news"
      [] w = "Weekend"  -> "weekend"
      [] w = "passes."  -> "passes"
      [] w = "-"        -> ""
      [] w = " "        -> ""
      [] OTHER          -> w

\* normalizeText: the normalized words of a text, in order (what
\* normalized.split(/\s+/) yields, without the empty strings that no
\* later filter keeps).
normalizeText(text) ==
    SelectSeq([i \in DOMAIN text |-> NormalizeWord(text[i])], LAMBDA w : w # "")

\* text is falsy (undefined, null, "")
Falsy(text) == text = <<>>

\* text.trim() is the empty string
TrimEmpty(text) == \A i \in DOMAIN text : text[i] = " "

stopWords ==
    {"the", "and", "or", "but", "in", "on", "at", "to", "for", "of", "with",
     "by", "from", "as", "is", "was", "are", "were", "been", "be", "have",
     "has", "had", "do", "does", "did", "will", "would", "could", "should",
     "may", "might", "must", "can", "this", "that", "these", "those", "a",
     "an", "its", "it", "they", "them", "their", "there", "then", "than",
     "said", "says", "new", "news"}

\* extractKeyTerms(text, maxTerms), as the set its callers build from it:
\* the words longer than 2 that are no stop words, ranked by frequency
\* (stable: first occurrence breaks ties), cut to the first maxTerms.
extractKeyTerms(text, maxTerms) ==
    IF Falsy(text) \/ TrimEmpty(text) THEN {}
    ELSE
      LET words == SelectSeq(normalizeText(text),
                             LAMBDA w : Len(w) > 2 /\ w \notin stopWords)
          count(w) == Cardinality({i \in DOMAIN words : words[i] = w})
          first(w) == CHOOSE i \in DOMAIN words :
                          /\ words[i] = w
                          /\ \A j \in 1..(i - 1) : words[j] # w
          before(v, w) == \/ count(v) > count(w)
                          \/ count(v) = count(w) /\ first(v) < first(w)
      IN IF Cardinality(Range(words)) <= maxTerms
         THEN Range(words)     \* slice(0, maxTerms) keeps every entry
         ELSE {w \in Range(words) :
                  Cardinality({v \in Range(words) : before(v, w)}) < maxTerms}

\* Intersection over the first set instead of over the union.
jaccardOverFirst(set1, set2) ==
    IF set1 = {} /\ set2 = {} THEN Unit
    ELSE IF set1 = {} \/ set2 = {} THEN 0
    ELSE (Unit \div Cardinality(set1)) * Cardinality(set1 \cap set2)

\* jaccardSimilarity(set1, set2) in fixed point.
jaccardSimilarity(set1, set2) ==
    IF set1 = {} /\ set2 = {} THEN Unit
    ELSE IF set1 = {} \/ set2 = {} THEN 0
    ELSE (Unit \div Cardinality(set1 \cup set2)) * Cardinality(set1 \cap set2)

\* The raw title words of lines 162-164 and 355-357: words of the
\* normalized title longer than 2, stop words included.
TitleWords(title) == {w \in Range(normalizeText(title)) : Len(w) > 2}

sharedTitleWords(t1, t2) == TitleWords(t1) \cap TitleWords(t2)

----------------------------------------------------------------------------
(* Dates and URLs *)

NoDate == [kind |-> "missing", day |-> 0]       \* undefined, null or ""
InvalidDate == [kind |-> "invalid", day |-> 0]  \* new Date(s) is Invalid Date
OnDay(n) == [kind |-> "date", day |-> n]

\* An unparsable date read as the epoch (day 0).
timeBonusInvalidAsEpoch(p1, p2) ==
    IF p1.kind = "missing" \/ p2.kind = "missing" THEN 0
    ELSE LET daysDiff == IF p1.day >= p2.day THEN p1.day - p2.day
                         ELSE p2.day - p1.day
         IN IF daysDiff <= 7 THEN Frac(15, 100)
            ELSE IF daysDiff <= 14 THEN Frac(5, 100)
            ELSE 0

\* timeBonus of lines 176-191. A comparison with NaN is false, so an
\* unparsable date leaves the bonus at 0; no statement in the try block
\* throws.
timeBonus(p1, p2) ==
    IF p1.kind = "missing" \/ p2.kind = "missing" THEN 0
    ELSE IF p1.kind = "invalid" \/ p2.kind = "invalid" THEN 0
    ELSE LET daysDiff == IF p1.day >= p2.day THEN p1.day - p2.day
                         ELSE p2.day - p1.day
         IN IF daysDiff <= 7 THEN Frac(15, 100)
            ELSE IF daysDiff <= 14 THEN Frac(5, 100)
            ELSE 0

\* new URL(u).hostname; "" when new URL(u) throws.
Hostname(u) ==
    CASE u = "https://www.theguardian.com/a" -> "www.theguardian.com"
      [] u = "https://www.theguardian.com/b" -> "www.theguardian.com"
      [] u = "https://gdeltproject.org/a"    -> "gdeltproject.org"
      [] u = "https://www.theguardian.com/c" -> "www.theguardian.com"
      [] u = "https://gdeltproject.org/b"    -> "gdeltproject.org"
      [] u = "https://gdeltproject.org/c"    -> "gdeltproject.org"
      [] u = "https://currentsapi.services/a" -> "currentsapi.services"
      [] u = "https://currentsapi.services/c" -> "currentsapi.services"
      [] OTHER                               -> ""

\* urlBonus of lines 194-203.
urlBonus(u1, u2) ==
    IF Hostname(u1) = "" \/ Hostname(u2) = "" THEN 0
    ELSE IF Hostname(u1) = Hostname(u2) THEN Frac(5, 100)
    ELSE 0

----------------------------------------------------------------------------
(* calculateSimilarity *)

\* The combined text `${title || ""} ${description || ""}` of lines 129-130.
CombinedText(a) == a.title \o a.description

\* Math.min(0.3, ...) for Math.min(1, ...) in the boost of line 171.
TitleBoostedCapped(textSimilarity, t1, t2) ==
    LET titleSimilarity == jaccardSimilarity(extractKeyTerms(normalizeText(t1), 20),
                                             extractKeyTerms(normalizeText(t2), 20))
        weighted == IF titleSimilarity > Frac(15, 100)
                    THEN Max(textSimilarity,
                             (titleSimilarity \div 100) * 98
                               + (textSimilarity \div 100) * 2)
                    ELSE textSimilarity
        shared == Cardinality(sharedTitleWords(t1, t2))
        plus2 == IF shared >= 2 THEN Min(Unit, weighted + Frac(20, 100))
                 ELSE weighted
    IN IF shared >= 4 THEN Min(Frac(30, 100), plus2 + Frac(30, 100)) ELSE plus2

\* The +0.2 of line 165 from 3 shared title words on.
TitleBoostedFromThree(textSimilarity, t1, t2) ==
    LET titleSimilarity == jaccardSimilarity(extractKeyTerms(normalizeText(t1), 20),
                                             extractKeyTerms(normalizeText(t2), 20))
        weighted == IF titleSimilarity > Frac(15, 100)
                    THEN Max(textSimilarity,
                             (titleSimilarity \div 100) * 98
                               + (textSimilarity \div 100) * 2)
                    ELSE textSimilarity
        shared == Cardinality(sharedTitleWords(t1, t2))
        plus2 == IF shared >= 3 THEN Min(Unit, weighted + Frac(20, 100))
                 ELSE weighted
    IN IF shared >= 4 THEN Min(Unit, plus2 + Frac(30, 100)) ELSE plus2

\* textSimilarity after the title boosts of lines 144-173.
TitleBoosted(textSimilarity, t1, t2) ==
    LET titleSimilarity == jaccardSimilarity(extractKeyTerms(normalizeText(t1), 20),
                                             extractKeyTerms(normalizeText(t2), 20))
        weighted == IF titleSimilarity > Frac(15, 100)
                    THEN Max(textSimilarity,
                             (titleSimilarity \div 100) * 98
                               + (textSimilarity \div 100) * 2)
                    ELSE textSimilarity
        shared == Cardinality(sharedTitleWords(t1, t2))
        plus2 == IF shared >= 2 THEN Min(Unit, weighted + Frac(20, 100))
                 ELSE weighted
    IN IF shared >= 4 THEN Min(Unit, plus2 + Frac(30, 100)) ELSE plus2

\* The two weights exchanged: textSimilarity * 0.05 + timeBonus * 0.95.
combinedScoreSwapped(textSimilarity, tBonus, uBonus) ==
    (textSimilarity \div 100) * 5 + (tBonus \div 100) * 95

\* combinedScore of line 206: urlBonus is computed (lines 194-203) and not
\* part of the sum.
combinedScore(textSimilarity, tBonus, uBonus) ==
    (textSimilarity \div 100) * 95 + (tBonus \div 100) * 5

\* The guard of line 132 with && for ||.
EmptyTextGuardBoth(a1, a2) ==
    TrimEmpty(CombinedText(a1)) /\ TrimEmpty(CombinedText(a2))

\* !text1 || !text2 of line 132.
EmptyTextGuard(a1, a2) ==
    TrimEmpty(CombinedText(a1)) \/ TrimEmpty(CombinedText(a2))

calculateSimilarity(a1, a2) ==
    IF EmptyTextGuard(a1, a2) THEN 0
    ELSE
      LET terms1 == extractKeyTerms(CombinedText(a1), 40)
          terms2 == extractKeyTerms(CombinedText(a2), 40)
          jaccard == jaccardSimilarity(terms1, terms2)
          textSimilarity == IF ~Falsy(a1.title) /\ ~Falsy(a2.title)
                            THEN TitleBoosted(jaccard, a1.title, a2.title)
                            ELSE jaccard
      IN Min(Unit, combinedScore(textSimilarity,
                                 timeBonus(a1.publishedAt, a2.publishedAt),
                                 urlBonus(a1.url, a2.url)))

----------------------------------------------------------------------------
(* Inputs *)

TitleBudget1 == <<"City", "Council", "Approves", "New", "Budget">>
TitleBudget2 == <<"Council", "approves", "city", "budget", "plan">>
TitleWeather == <<"Local", "weather", "forecast", "for", "the", "weekend">>
TitleStopOnly == <<"The", "News">>
TitleBlank == <<" ">>
\* 21 distinct key terms, one more than the title cut of 20 keeps; the two
\* titles hold the same words in a different order.
TitleLong1 == [i \in 1..21 |-> "term" \o ToString(i)]
TitleLong2 == [i \in 1..21 |-> "term" \o ToString(IF i = 1 THEN 21 ELSE i - 1)]
NoText == <<>>

DescBudget == <<"Budget", "vote", "passes.">>
DescWeather == <<"Weekend", "weather">>

Titles == {NoText, TitleBlank, TitleStopOnly, TitleBudget1, TitleBudget2, TitleWeather}
LongTitles == {TitleLong1, TitleLong2}
Descriptions == {NoText, DescBudget}
\* Day differences 0, 7, 14 and 21: both limits of the recency bonus and a
\* pair beyond them.
PublishedAts == {NoDate, InvalidDate, OnDay(1), OnDay(8), OnDay(22)}
Urls == {"not a url", "https://www.theguardian.com/a", "https://gdeltproject.org/a"}

Article(id, title, description, source, sourceName, publishedAt, url) ==
    [id |-> id, title |-> title, description |-> description,
     source |-> source, sourceName |-> sourceName,
     publishedAt |-> publishedAt, url |-> url]

\* The article pairs the scorer is applied to.
ScorerArticles ==
    {Article(0, t, d, "guardian", "Guardian", p, u) :
        t \in Titles, d \in Descriptions, p \in PublishedAts, u \in Urls}
    \cup
    {Article(0, t, NoText, "guardian", "Guardian", p, "https://www.theguardian.com/a") :
        t \in LongTitles, p \in {NoDate, OnDay(1)}}

GuardianA == "https://www.theguardian.com/a"
GdeltA == "https://gdeltproject.org/a"

\* The articles a caller's list is drawn from (id is set by Init).
Pool ==
    { Article(0, TitleBudget1, DescBudget, "guardian", "Guardian", OnDay(1), GuardianA),
      Article(0, TitleBudget2, DescBudget, "guardian", "Guardian", OnDay(22), GuardianA),
      Article(0, TitleBudget2, NoText, "gdelt", "GDELT", OnDay(8), GdeltA),
      Article(0, TitleWeather, DescWeather, "gdelt", "GDELT", InvalidDate, GdeltA),
      Article(0, NoText, NoText, "gdelt", "GDELT", OnDay(1), GdeltA),
      Article(0, TitleWeather, NoText, "currents", "Currents", NoDate, "not a url"),
      Article(0, TitleBudget1, NoText, "currents", "Currents", OnDay(8), "not a url"),
      Article(0, NoText, DescBudget, "currents", "Currents", OnDay(1), "not a url"),
      Article(0, TitleBudget1, DescBudget, "", "Guardian", OnDay(8), GuardianA) }

\* calculateSimilarity is a pure function of the two records, so the value
\* of every call that groupSimilarArticles can make is fixed by the caller's
\* list: similarities holds these values, indexed by the ids of the pair.
SimilaritiesOf(list) ==
    [pr \in (DOMAIN list) \X (DOMAIN list) |->
        calculateSimilarity(list[pr[1]], list[pr[2]])]

\* The value of calculateSimilarity(a1, a2) for two articles of the list.
similarity(a1, a2) == similarities[<<a1.id, a2.id>>]

----------------------------------------------------------------------------
(* Source keys *)

\* String.prototype.toLowerCase on a source string.
toLowerCase(s) ==
    CASE s = "Guardian" -> "guardian"
      [] s = "GDELT"    -> "gdelt"
      [] s = "Currents" -> "currents"
      [] s = " GDELT"   -> " gdelt"
      [] OTHER          -> s

\* String.prototype.trim on a source string.
trim(s) ==
    CASE s = " gdelt" -> "gdelt"
      [] s = " GDELT" -> "GDELT"
      [] OTHER        -> s

\* a.source || a.sourceName || fallback ("" is the missing field).
SourceOr(a, fallback) ==
    IF a.source # "" THEN a.source
    ELSE IF a.sourceName # "" THEN a.sourceName
    ELSE fallback

\* The key of the assignment and merge passes (lines 250, 259, 319, 332, 381).
articleSource(a) == toLowerCase(SourceOr(a, "unknown"))

\* The key of the deduplication map (line 400): not lowercased.
dedupSource(a) == SourceOr(a, "unknown")

\* The key of the final classification (lines 432, 441).
uniqueSource(a) == trim(toLowerCase(SourceOr(a, "unknown")))

\* The sort key of lines 240-241.
sortSource(a) == toLowerCase(SourceOr(a, ""))

\* The source strings in localeCompare order.
SourceOrder == <<"", " gdelt", "currents", "gdelt", "guardian", "unknown">>

localeRank(s) == CHOOSE k \in DOMAIN SourceOrder : SourceOrder[k] = s

\* [...articles].sort(...) of lines 239-243: a stable sort by sortSource.
SortBySource(list) ==
    LET pos(k) == Cardinality({j \in DOMAIN list :
                     \/ localeRank(sortSource(list[j])) < localeRank(sortSource(list[k]))
                     \/ /\ localeRank(sortSource(list[j])) = localeRank(sortSource(list[k]))
                        /\ j <= k})
    IN [n \in DOMAIN list |-> list[CHOOSE k \in DOMAIN list : pos(k) = n]]

----------------------------------------------------------------------------
(* Phase 1: assignment (lines 246-300) *)

\* The threshold argument in fixed point.
ThresholdValue(threshold) == Frac(threshold, 100)

\* Maximum of calculateSimilarity(article, x) over a list (lines 264-270,
\* starting from 0).
maxSimilarityTo(article, list) ==
    LET sims == {similarity(article, list[k]) : k \in DOMAIN list} \cup {0}
    IN CHOOSE m \in sims : \A x \in sims : x <= m

\* The source field alone, without the sourceName fallback.
hasDifferentSourceField(article, group) ==
    article.source \notin {group.articles[k].source : k \in DOMAIN group.articles}

\* Line 262.
hasDifferentSource(article, group) ==
    articleSource(article) \notin {articleSource(group.articles[k]) : k \in DOMAIN group.articles}

\* Line 274 (every score is an even number of fixed-point steps).
effectiveSimilarity(article, group) ==
    IF hasDifferentSource(article, group)
    THEN (maxSimilarityTo(article, group.articles) \div 2) * 3
    ELSE maxSimilarityTo(article, group.articles)

\* A group of another source is joined whatever the score.
QualifiesCrossSource(article, group, threshold) ==
    \/ hasDifferentSource(article, group)
    \/ effectiveSimilarity(article, group) >= ThresholdValue(threshold)

\* Line 276.
Qualifies(article, group, threshold) ==
    effectiveSimilarity(article, group) >= ThresholdValue(threshold)

NoBest == [group |-> 0, similarity |-> 0, hasDifferentSource |-> FALSE]

\* The higher score wins, whatever the sources.
ConsiderGroupByScore(article, gs, threshold, k, best) ==
    LET group == gs[k]
        effective == effectiveSimilarity(article, group)
    IN IF Qualifies(article, group, threshold) /\ effective > best.similarity
       THEN [group |-> k, similarity |-> effective,
             hasDifferentSource |-> hasDifferentSource(article, group)]
       ELSE best

\* One iteration of the loop over groups (lines 256-290): the triple
\* bestGroup (an index into groups, 0 for null), bestSimilarity,
\* bestGroupHasDifferentSource after looking at group k.
ConsiderGroup(article, gs, threshold, k, best) ==
    LET group == gs[k]
        different == hasDifferentSource(article, group)
        maxSimilarity == maxSimilarityTo(article, group.articles)
        effective == effectiveSimilarity(article, group)
    IN IF Qualifies(article, group, threshold)
       THEN IF different
            THEN IF effective > best.similarity \/ ~best.hasDifferentSource
                 THEN [group |-> k, similarity |-> effective, hasDifferentSource |-> TRUE]
                 ELSE best
            ELSE IF ~best.hasDifferentSource /\ maxSimilarity > best.similarity
                 THEN [group |-> k, similarity |-> maxSimilarity,
                       hasDifferentSource |-> best.hasDifferentSource]
                 ELSE best
       ELSE best

\* The loop of lines 256-290: the triple after each group, in order. (The
\* triple of the previous iteration is bound as the element of a singleton,
\* which evaluates it once.)
ScanGroups(article, gs, threshold) ==
    LET after[k \in 0..Len(gs)] ==
            IF k = 0 THEN NoBest
            ELSE CHOOSE next \in {ConsiderGroup(article, gs, threshold, k, best) :
                                     best \in {after[k - 1]}} : TRUE
    IN after[Len(gs)]

\* bestGroup after the loop: an index into gs, 0 for null.
bestGroup(article, gs, threshold) == ScanGroups(article, gs, threshold).group

\* Every new group is named `group-1`.
PlaceArticleSameId(article, gs, threshold) ==
    LET b == bestGroup(article, gs, threshold)
    IN IF b # 0
       THEN [gs EXCEPT ![b].articles = Append(@, article)]
       ELSE Append(gs, [groupId |-> 1, articles |-> <<article>>])

\* Lines 292-297: groups after the article is placed. groupId n stands for
\* the string `group-${n}`.
PlaceArticle(article, gs, threshold) ==
    LET b == bestGroup(article, gs, threshold)
    IN IF b # 0
       THEN [gs EXCEPT ![b].articles = Append(@, article)]
       ELSE Append(gs, [groupId |-> Len(gs) + 1, articles |-> <<article>>])

----------------------------------------------------------------------------
(* Phase 2: merge (lines 308-389) *)

\* similarityThreshold * 0.
mergeThresholdZero(threshold) == 0

\* Line 311.
mergeThreshold(threshold) == (ThresholdValue(threshold) \div 100) * 85

GroupSources(list) == {articleSource(list[k]) : k \in DOMAIN list}

\* The similarity of two groups without the +0.3 of lines 353-367.
groupSimilarityUnboosted(currentGroup, otherGroup) ==
    LET pairs == (DOMAIN currentGroup.articles) \X (DOMAIN otherGroup.articles)
        sims == {similarity(currentGroup.articles[pr[1]],
                            otherGroup.articles[pr[2]]) : pr \in pairs} \cup {0}
    IN CHOOSE m \in sims : \A x \in sims : x <= m

\* Lines 343-368: the similarity of two groups, with the +0.3 of a pair of
\* titles that share at least 3 words.
groupSimilarity(currentGroup, otherGroup) ==
    LET pairs == (DOMAIN currentGroup.articles) \X (DOMAIN otherGroup.articles)
        sims == {similarity(currentGroup.articles[pr[1]],
                            otherGroup.articles[pr[2]]) : pr \in pairs} \cup {0}
        maxSimilarity == CHOOSE m \in sims : \A x \in sims : x <= m
        titlesClose == \E pr \in pairs :
            LET a1 == currentGroup.articles[pr[1]]
                a2 == otherGroup.articles[pr[2]]
            IN /\ ~Falsy(a1.title) /\ ~Falsy(a2.title)
               /\ Cardinality(sharedTitleWords(a1.title, a2.title)) >= 3
    IN IF titlesClose THEN maxSimilarity + Frac(30, 100) ELSE maxSimilarity

\* ConsiderMerge without merged.add(j) of line 377.
ConsiderMergeUnmarked(gs, threshold, a, j, acc) ==
    IF j \in acc.merged THEN acc
    ELSE IF GroupSources(gs[j].articles) \cap acc.sources # {} THEN acc
    ELSE IF groupSimilarity(gs[a], gs[j]) >= mergeThreshold(threshold)
         THEN [sources |-> acc.sources \cup GroupSources(gs[j].articles),
               articles |-> acc.articles \o gs[j].articles,
               merged |-> acc.merged]
         ELSE acc

\* ConsiderMerge with the anchor's own sources only (currentSources is not
\* extended at lines 380-383).
ConsiderMergeOwnSources(gs, threshold, a, j, acc) ==
    IF j \in acc.merged THEN acc
    ELSE IF GroupSources(gs[j].articles) \cap GroupSources(gs[a].articles) # {} THEN acc
    ELSE IF groupSimilarity(gs[a], gs[j]) >= mergeThreshold(threshold)
         THEN [sources |-> acc.sources \cup GroupSources(gs[j].articles),
               articles |-> acc.articles \o gs[j].articles,
               merged |-> acc.merged \cup {j}]
         ELSE acc

\* ConsiderMerge with the pairwise loop over mergedGroup.articles, the
\* anchor's articles and those absorbed so far.
ConsiderMergeWithAbsorbed(gs, threshold, a, j, acc) ==
    IF j \in acc.merged THEN acc
    ELSE IF GroupSources(gs[j].articles) \cap acc.sources # {} THEN acc
    ELSE IF groupSimilarity([groupId |-> gs[a].groupId, articles |-> acc.articles], gs[j])
               >= mergeThreshold(threshold)
         THEN [sources |-> acc.sources \cup GroupSources(gs[j].articles),
               articles |-> acc.articles \o gs[j].articles,
               merged |-> acc.merged \cup {j}]
         ELSE acc

\* One iteration of the inner loop (lines 327-385) for anchor a and group j.
\* acc holds currentSources, mergedGroup.articles and the merged set.
ConsiderMerge(gs, threshold, a, j, acc) ==
    IF j \in acc.merged THEN acc
    ELSE IF GroupSources(gs[j].articles) \cap acc.sources # {} THEN acc
    ELSE IF groupSimilarity(gs[a], gs[j]) >= mergeThreshold(threshold)
         THEN [sources |-> acc.sources \cup GroupSources(gs[j].articles),
               articles |-> acc.articles \o gs[j].articles,
               merged |-> acc.merged \cup {j}]
         ELSE acc

\* The body of the outer loop for an anchor a that is not merged: the
\* inner loop over j = a + 1 .. Len(gs), in order.
MergeAnchor(gs, threshold, a, mergedSet) ==
    LET after[j \in a..Len(gs)] ==
            IF j = a
            THEN [sources |-> GroupSources(gs[a].articles),
                  articles |-> gs[a].articles,
                  merged |-> mergedSet]
            ELSE CHOOSE next \in {ConsiderMerge(gs, threshold, a, j, acc) :
                                     acc \in {after[j - 1]}} : TRUE
    IN after[Len(gs)]

----------------------------------------------------------------------------
(* Deduplication (lines 396-426) and the final ordering (lines 428-470) *)

\* currentDate > existingDate && currentDate > 0 of line 413, with getTime()
\* 0 for a missing date and NaN for an unparsable one.
NewerThan(current, existing) ==
    /\ current.kind = "date"
    /\ existing.kind # "invalid"
    /\ current.day > (IF existing.kind = "date" THEN existing.day ELSE 0)
    /\ current.day > 0

\* Every article is kept (the lookup of line 401 never finds the key).
PutArticleAlways(sourceMap, article) == Append(sourceMap, article)

\* sourceMap after one forEach step; a Map keeps the insertion order of its
\* keys, and set() on a present key keeps the key's place.
PutArticle(sourceMap, article) ==
    LET source == dedupSource(article)
        at == {k \in DOMAIN sourceMap : dedupSource(sourceMap[k]) = source}
    IN IF at = {} THEN Append(sourceMap, article)
       ELSE LET k == CHOOSE x \in at : TRUE
            IN IF NewerThan(article.publishedAt, sourceMap[k].publishedAt)
               THEN [sourceMap EXCEPT ![k] = article]
               ELSE sourceMap

\* The forEach of lines 399-420 over a group's articles, in order.
FillSourceMap(list) ==
    LET after[k \in 0..Len(list)] ==
            IF k = 0 THEN <<>>
            ELSE CHOOSE next \in {PutArticle(sourceMap, list[k]) :
                                     sourceMap \in {after[k - 1]}} : TRUE
    IN after[Len(list)]

\* Only the first article of the group is kept.
DeduplicateGroupFirstOnly(group) ==
    [groupId |-> group.groupId, articles |-> SubSeq(group.articles, 1, 1)]

\* Lines 396-426 for one group.
DeduplicateGroup(group) ==
    [groupId |-> group.groupId, articles |-> FillSourceMap(group.articles)]

\* uniqueSources.size >= 2 of lines 430-435.
IsMultiSource(group) ==
    Cardinality({uniqueSource(group.articles[k]) : k \in DOMAIN group.articles}) >= 2

\* Single-source groups first.
FinalGroupsSingleFirst(dedup) ==
    SelectSeq(dedup, LAMBDA g : ~IsMultiSource(g)) \o SelectSeq(dedup, IsMultiSource)

\* Only the multi-source groups, when there is one.
FinalGroupsMultiOnly(dedup) ==
    IF SelectSeq(dedup, IsMultiSource) # <<>>
    THEN SelectSeq(dedup, IsMultiSource)
    ELSE dedup

\* Lines 429-470.
FinalGroups(dedup) ==
    LET multiSourceGroupsFinal == SelectSeq(dedup, IsMultiSource)
        singleSourceGroupsFinal == SelectSeq(dedup, LAMBDA g : ~IsMultiSource(g))
    IN IF Len(multiSourceGroupsFinal) > 0
       THEN multiSourceGroupsFinal \o singleSourceGroupsFinal
       ELSE IF Len(singleSourceGroupsFinal) > 0 THEN singleSourceGroupsFinal
       ELSE <<>>

----------------------------------------------------------------------------
(* The scorer on its own: one call of calculateSimilarity *)

ScorerInit ==
    /\ article1 \in ScorerArticles
    /\ article2 \in ScorerArticles
    /\ score = 0
    /\ pc = "score"
    /\ articles = <<>> /\ hasArticles = FALSE /\ similarityThreshold = 0 /\ loopIndex = 0
    /\ sortedArticles = <<>> /\ used = {} /\ groups = <<>>
    /\ mergedGroups = <<>> /\ merged = {} /\ deduplicatedGroups = <<>>
    /\ result = <<>>
    /\ similarities = <<>>
    /\ RouteIdle

Score ==
    /\ pc = "score"
    /\ score' = calculateSimilarity(article1, article2)
    /\ pc' = "scored"
    /\ UNCHANGED <<article1, article2>>
    /\ UNCHANGED groupingVars
    /\ UNCHANGED routeVars

ScorerNext == Score

ScorerSpec == ScorerInit /\ [][ScorerNext]_vars

\* Every Jaccard quotient of a scorer call is exact in fixed point.
JaccardExact ==
    LET exact(s1, s2) == s1 \cap s2 = {} \/ Unit % Cardinality(s1 \cup s2) = 0
    IN /\ exact(extractKeyTerms(CombinedText(article1), 40),
                extractKeyTerms(CombinedText(article2), 40))
       /\ exact(extractKeyTerms(normalizeText(article1.title), 20),
                extractKeyTerms(normalizeText(article2.title), 20))

----------------------------------------------------------------------------
(* groupSimilarArticles as a state machine *)

\* similarityThreshold values, in hundredths: 0.20 is what the aggregate
\* route passes, DefaultThreshold is the parameter's default.
DefaultThreshold == 30
Thresholds == {0, 20, DefaultThreshold, 90}

Init ==
    /\ hasArticles \in BOOLEAN
    /\ \E n \in 0..MaxArticles :
         \E list \in [1..n -> Pool] :
            articles = [k \in 1..n |-> [list[k] EXCEPT !.id = k]]
    /\ hasArticles = FALSE => articles = <<>>
    /\ similarityThreshold \in Thresholds
    /\ pc = "start"
    /\ loopIndex = 0
    /\ sortedArticles = <<>> /\ used = {} /\ groups = <<>>
    /\ mergedGroups = <<>> /\ merged = {} /\ deduplicatedGroups = <<>>
    /\ result = <<>>
    /\ similarities = SimilaritiesOf(articles)
    /\ article1 = Article(0, NoText, NoText, "", "", NoDate, "")
    /\ article2 = Article(0, NoText, NoText, "", "", NoDate, "")
    /\ score = 0
    /\ RouteIdle

\* articles.length === 0 alone.
EmptyInputLengthOnly == hasArticles /\ Len(articles) = 0

\* !articles || articles.length === 0 of line 218.
EmptyInput == ~hasArticles \/ Len(articles) = 0

\* Lines 218-221: no list, or an empty one.
ReturnEmpty ==
    /\ pc = "start"
    /\ EmptyInput
    /\ result' = <<>>
    /\ pc' = "done"
    /\ UNCHANGED <<articles, hasArticles, similarityThreshold, loopIndex, sortedArticles,
                   used, groups, mergedGroups, merged, deduplicatedGroups>>
    /\ UNCHANGED <<similarities, article1, article2, score>>
    /\ UNCHANGED routeVars

\* articles.sort(...): the caller's list is sorted in place.
articlesSortedInPlace(list) == SortBySource(list)

\* The caller's list after [...articles].sort(...) of line 239: the spread
\* makes a new array and sort orders that one.
articlesAfterSort(list) == list

\* Lines 223-243. articles.forEach (line 229) on a missing list throws a
\* TypeError.
SortArticles ==
    /\ pc = "start"
    /\ ~EmptyInput
    /\ IF hasArticles
       THEN /\ sortedArticles' = SortBySource(articles)
            /\ articles' = articlesAfterSort(articles)
            /\ loopIndex' = 1
            /\ pc' = "phase1"
       ELSE /\ pc' = "threw"
            /\ UNCHANGED <<articles, sortedArticles, loopIndex>>
    /\ groups' = <<>>
    /\ used' = {}
    /\ UNCHANGED <<hasArticles, similarityThreshold, mergedGroups, merged,
                   deduplicatedGroups, result>>
    /\ UNCHANGED <<similarities, article1, article2, score>>
    /\ UNCHANGED routeVars

\* One iteration of the phase 1 loop (lines 246-300); after the last one
\* the merge pass starts (lines 308-311).
AssignArticle ==
    /\ pc = "phase1"
    /\ loopIndex <= Len(sortedArticles)
    /\ loopIndex \notin used
    /\ groups' = PlaceArticle(sortedArticles[loopIndex], groups, similarityThreshold)
    /\ used' = used \cup {loopIndex}
    /\ IF loopIndex = Len(sortedArticles)
       THEN pc' = "phase2" /\ loopIndex' = 1
       ELSE pc' = pc /\ loopIndex' = loopIndex + 1
    /\ UNCHANGED <<articles, hasArticles, similarityThreshold, sortedArticles,
                   mergedGroups, merged, deduplicatedGroups, result>>
    /\ UNCHANGED <<similarities, article1, article2, score>>
    /\ UNCHANGED routeVars

\* The position after iteration loopIndex of the phase 2 loop.
AfterAnchor ==
    IF loopIndex = Len(groups)
    THEN pc' = "dedup" /\ loopIndex' = 0
    ELSE pc' = pc /\ loopIndex' = loopIndex + 1

\* Line 314: the group was absorbed by an earlier anchor.
SkipMerged ==
    /\ pc = "phase2"
    /\ loopIndex \in merged
    /\ AfterAnchor
    /\ UNCHANGED <<articles, hasArticles, similarityThreshold, sortedArticles, used,
                   groups, mergedGroups, merged, deduplicatedGroups, result>>
    /\ UNCHANGED <<similarities, article1, article2, score>>
    /\ UNCHANGED routeVars

\* One iteration of the phase 2 loop for an anchor (lines 316-388).
MergeGroups ==
    /\ pc = "phase2"
    /\ loopIndex \notin merged
    /\ \E acc \in {MergeAnchor(groups, similarityThreshold, loopIndex, merged)} :
          /\ mergedGroups' = Append(mergedGroups,
                                    [groupId |-> groups[loopIndex].groupId,
                                     articles |-> acc.articles])
          /\ merged' = acc.merged \cup {loopIndex}
    /\ AfterAnchor
    /\ UNCHANGED <<articles, hasArticles, similarityThreshold, sortedArticles, used,
                   groups, deduplicatedGroups, result>>
    /\ UNCHANGED <<similarities, article1, article2, score>>
    /\ UNCHANGED routeVars

\* Lines 396-426.
Deduplicate ==
    /\ pc = "dedup"
    /\ deduplicatedGroups' = [k \in DOMAIN mergedGroups |-> DeduplicateGroup(mergedGroups[k])]
    /\ pc' = "return"
    /\ UNCHANGED <<articles, hasArticles, similarityThreshold, loopIndex, sortedArticles,
                   used, groups, mergedGroups, merged, result>>
    /\ UNCHANGED <<similarities, article1, article2, score>>
    /\ UNCHANGED routeVars

\* Lines 428-470.
ReturnGroups ==
    /\ pc = "return"
    /\ result' = FinalGroups(deduplicatedGroups)
    /\ pc' = "done"
    /\ UNCHANGED <<articles, hasArticles, similarityThreshold, loopIndex, sortedArticles,
                   used, groups, mergedGroups, merged, deduplicatedGroups>>
    /\ UNCHANGED <<similarities, article1, article2, score>>
    /\ UNCHANGED routeVars

Next ==
    \/ ReturnEmpty
    \/ SortArticles
    \/ AssignArticle
    \/ SkipMerged
    \/ MergeGroups
    \/ Deduplicate
    \/ ReturnGroups

Spec == Init /\ [][Next]_vars

----------------------------------------------------------------------------
(* Properties of the scorer (checked under ScorerSpec) *)

\* C5: calculateSimilarity returns a value in the closed interval [0,1]
\* for every pair of articles, whichever of the title boost, the shared-word
\* boosts and the recency bonus apply.
ScoreInUnitInterval == pc = "scored" => score >= 0 /\ score <= Unit

\* C5 witness: a scored pair for which the title boost, both shared-word
\* boosts and the 7-day recency bonus all applied.
ScoreBoostsStacked ==
    /\ pc = "scored"
    /\ article1.title = TitleBudget1 /\ article2.title = TitleBudget2
    /\ Cardinality(sharedTitleWords(article1.title, article2.title)) >= 4
    /\ timeBonus(article1.publishedAt, article2.publishedAt) = Frac(15, 100)
    /\ score = Frac(9575, 10000)

\* Well-formed article: non-empty title and non-empty description.
WellFormed(a) == ~TrimEmpty(a.title) /\ ~TrimEmpty(a.description)

\* C6 (the claim as stated): for a well-formed article a,
\* calculateSimilarity(a, a) is 1.0.
SelfSimilarityIsOne ==
    (pc = "scored" /\ article1 = article2 /\ WellFormed(article1)) => score = Unit

\* C7: if title + " " + description of either article is empty after
\* trimming, calculateSimilarity returns exactly 0, whatever the dates, the
\* urls and the other article's text are.
EmptyTextScoresZero ==
    (pc = "scored" /\ (\/ TrimEmpty(CombinedText(article1))
                       \/ TrimEmpty(CombinedText(article2))))
        => score = 0

\* C7 witness: a whitespace-only text scored 0 against an article with text,
\* although both titles are truthy with no key term (title Jaccard 1) and
\* the dates are within 7 days.
EmptyTextScored ==
    /\ pc = "scored"
    /\ article1.title = TitleBlank /\ article1.description = NoText
    /\ article2.title = TitleStopOnly /\ article2.description = DescBudget
    /\ timeBonus(article1.publishedAt, article2.publishedAt) > 0
    /\ Hostname(article1.url) # "" /\ Hostname(article1.url) = Hostname(article2.url)
    /\ score = 0

\* C8: calculateSimilarity is symmetric: the score returned for (a, b) equals
\* the score of (b, a).
ScoreSymmetric == pc = "scored" => score = calculateSimilarity(article2, article1)

\* C8 witness: a scored pair of different articles whose titles have more
\* key terms than the cut keeps, so that the two kept term sets differ.
ScoredAcrossTermCut ==
    /\ pc = "scored"
    /\ article1.title = TitleLong1 /\ article2.title = TitleLong2
    /\ extractKeyTerms(normalizeText(article1.title), 20)
           # extractKeyTerms(normalizeText(article2.title), 20)
    /\ score > 0

----------------------------------------------------------------------------
(* Properties of groupSimilarArticles (checked under Spec) *)

\* The places <<g, k>> of a list of groups that hold article a.
PlacesOf(gs, a) ==
    {pl \in UNION {{<<g, k>> : k \in DOMAIN gs[g].articles} : g \in DOMAIN gs} :
        gs[pl[1]].articles[pl[2]] = a}

\* Every article of the caller's list is at exactly one place of gs, every
\* place holds an article of the list, and there is at least one group.
IsPartition(gs) ==
    /\ Len(gs) >= 1
    /\ \A n \in DOMAIN articles : Cardinality(PlacesOf(gs, articles[n])) = 1
    /\ \A g \in DOMAIN gs : \A k \in DOMAIN gs[g].articles :
          gs[g].articles[k] \in Range(articles)

\* C1: for a non-empty list and any threshold, after the assignment pass
\* and again after the merge pass (before deduplication) every input article
\* is in exactly one group, once, and at least one group exists.
GroupsPartitionInput ==
    /\ pc = "phase2" => IsPartition(groups)
    /\ pc = "dedup" => IsPartition(mergedGroups)

\* C1 witness: the merge pass has ended after absorbing a group, and some
\* group holds several articles.
MergedPartitionReached ==
    /\ pc = "dedup"
    /\ Len(mergedGroups) < Len(groups)
    /\ Len(articles) = MaxArticles
    /\ IsPartition(mergedGroups)

\* C2: in every returned group no two articles have the same source value
\* (source, else sourceName, else "unknown", as the deduplication reads it).
ReturnedSourcesUnique ==
    pc = "done" =>
        \A g \in DOMAIN result :
            \A k, l \in DOMAIN result[g].articles :
                k # l => dedupSource(result[g].articles[k]) # dedupSource(result[g].articles[l])

\* C2 witness: a call has returned after deduplication dropped an article
\* of a source that the group held twice.
DuplicateSourceDropped ==
    /\ pc = "done"
    /\ \E g \in DOMAIN mergedGroups :
          /\ Len(deduplicatedGroups[g].articles) < Len(mergedGroups[g].articles)
          /\ Len(deduplicatedGroups[g].articles) >= 2

\* C3: in the returned list every group with at least 2 distinct sources
\* comes before every group with fewer, and inside each of the two blocks
\* the groups are in creation order (groupId n is the n-th group created).
MultiSourceGroupsFirst ==
    pc = "done" =>
        \A x, y \in DOMAIN result :
            x < y =>
                /\ ~(~IsMultiSource(result[x]) /\ IsMultiSource(result[y]))
                /\ IsMultiSource(result[x]) = IsMultiSource(result[y])
                      => result[x].groupId < result[y].groupId

\* C3 witness: a multi-source group was returned ahead of a single-source
\* group that was created before it, and a block holds two groups.
MultiSourceMovedAhead ==
    /\ pc = "done"
    /\ Len(result) >= 2
    /\ IsMultiSource(result[1])
    /\ \E y \in DOMAIN result :
          ~IsMultiSource(result[y]) /\ result[y].groupId < result[1].groupId

\* C4: no group is dropped: the returned list holds exactly the groups left
\* by the merge pass, each once, so a non-empty list yields a non-empty
\* result, also when there is no multi-source group.
NoGroupDropped ==
    (pc = "done" /\ ~EmptyInput) =>
        /\ Len(result) = Len(mergedGroups)
        /\ Len(result) >= 1
        /\ \A m \in DOMAIN mergedGroups :
              Cardinality({x \in DOMAIN result : result[x].groupId = mergedGroups[m].groupId}) = 1

\* C4 witness: several groups were returned, none of them multi-source.
OnlySingleSourceReturned ==
    /\ pc = "done"
    /\ Len(result) >= 2
    /\ \A x \in DOMAIN result : ~IsMultiSource(result[x])

\* C4 witness, second case: single-source groups were returned after a
\* multi-source group.
SingleSourceKept ==
    /\ pc = "done"
    /\ Len(result) >= 2
    /\ IsMultiSource(result[1])
    /\ ~IsMultiSource(result[Len(result)])

\* The group of gs that holds article a is a group of one article.
AloneIn(gs, a) ==
    \A g \in DOMAIN gs :
        a \in Range(gs[g].articles) => Len(gs[g].articles) = 1

\* Score 0 against every other article of the list.
ScoresZero(a) ==
    \A n \in DOMAIN articles :
        n # a.id => similarities[<<a.id, n>>] = 0 /\ similarities[<<n, a.id>>] = 0

\* C9 (the claim as stated): an article whose title or description is
\* missing or empty scores 0 against every other article, is never joined
\* to another article and ends up alone in its group.
EmptyFieldArticleAlone ==
    \A n \in DOMAIN articles :
        (TrimEmpty(articles[n].title) \/ TrimEmpty(articles[n].description)) =>
            /\ ScoresZero(articles[n])
            /\ AloneIn(groups, articles[n])
            /\ AloneIn(mergedGroups, articles[n])
            /\ AloneIn(result, articles[n])

\* C9 (amended): an article whose title and description are both missing or
\* empty scores 0 against every other article; when the threshold is above
\* 0 it is never joined to another article, in either pass, and ends up as
\* the only article of its group.
EmptyTextArticleAlone ==
    \A n \in DOMAIN articles :
        TrimEmpty(CombinedText(articles[n])) =>
            /\ ScoresZero(articles[n])
            /\ similarityThreshold > 0 =>
                  /\ AloneIn(groups, articles[n])
                  /\ AloneIn(mergedGroups, articles[n])
                  /\ AloneIn(result, articles[n])

\* C9 witness: a call with a positive threshold returned an article without
\* text alone in its group, while two other articles were grouped.
EmptyTextArticleReturnedAlone ==
    /\ pc = "done"
    /\ similarityThreshold > 0
    /\ \E n \in DOMAIN articles :
          /\ TrimEmpty(CombinedText(articles[n]))
          /\ \E g \in DOMAIN result : result[g].articles = <<articles[n]>>
    /\ \E g \in DOMAIN mergedGroups : Len(mergedGroups[g].articles) >= 2

\* C10: called with an empty list or without a list, groupSimilarArticles
\* returns an empty list and throws nothing: no other position is reached.
EmptyInputReturnsEmpty ==
    (~hasArticles \/ Len(articles) = 0) =>
        \/ pc = "start"
        \/ pc = "done" /\ result = <<>>

\* C10 witness: the call without a list has returned.
MissingListReturned == pc = "done" /\ ~hasArticles /\ result = <<>>

\* An article with an unparsable publishedAt or an unparsable url.
Malformed(a) == a.publishedAt.kind = "invalid" \/ (a.url # "" /\ Hostname(a.url) = "")

\* The article with each unparsable field absent.
WithoutMalformed(a) ==
    [a EXCEPT !.publishedAt = IF @.kind = "invalid" THEN NoDate ELSE @,
              !.url = IF Hostname(@) = "" THEN "" ELSE @]

\* C11: an unparsable publishedAt or url never makes calculateSimilarity or
\* groupSimilarArticles fail: every pair's score is the score the pair has
\* with the unparsable fields absent, the call never throws, every step of
\* it is followed by a next one until it returns, and it returns groups.
MalformedFieldsTolerated ==
    (\E n \in DOMAIN articles : Malformed(articles[n])) =>
        /\ pc = "start" =>
              \A n, m \in DOMAIN articles :
                  (Malformed(articles[n]) \/ Malformed(articles[m])) =>
                      similarities[<<n, m>>] =
                          calculateSimilarity(WithoutMalformed(articles[n]),
                                              WithoutMalformed(articles[m]))
        /\ pc # "threw"
        /\ pc # "done" => ENABLED Next
        /\ pc = "done" => Len(result) >= 1

\* C11 witness: a call has returned whose list holds an article with an
\* unparsable date and one with an unparsable url, the first of them in a
\* group with an article of another date, after deduplication compared an
\* unparsable date.
MalformedListReturned ==
    /\ pc = "done"
    /\ \E n, m \in DOMAIN articles :
          /\ articles[n].publishedAt.kind = "invalid"
          /\ Hostname(articles[m].url) = "" /\ articles[m].url # ""
          /\ similarities[<<n, m>>] > 0
          /\ \E g \in DOMAIN mergedGroups :
                {articles[n], articles[m]} \subseteq Range(mergedGroups[g].articles)
    /\ \E g \in DOMAIN mergedGroups :
          /\ Len(deduplicatedGroups[g].articles) < Len(mergedGroups[g].articles)
          /\ \E k \in DOMAIN mergedGroups[g].articles :
                mergedGroups[g].articles[k].publishedAt.kind = "invalid"

----------------------------------------------------------------------------
(* Calls on lists of the scenario articles (same steps, other lists) *)

MaxScenarioArticles == 4

TitleCityBudget == <<"City", "Budget">>
TitleRoundup == <<"city", "council", "budget", "weather", "forecast", "weekend", "local">>
GuardianB == "https://www.theguardian.com/b"

\* Title and source only.
GuardianBudget == Article(0, TitleBudget1, NoText, "guardian", "", NoDate, "")
GdeltBudgetPlan == Article(0, TitleBudget2, NoText, "gdelt", "", NoDate, "")
CurrentsWeather == Article(0, TitleWeather, NoText, "currents", "", NoDate, "")
\* The same title and description under two sources and urls.
CurrentsStory == Article(0, TitleBudget1, DescBudget, "currents", "Currents", OnDay(8), GuardianB)
GdeltStory == Article(0, TitleBudget1, DescBudget, "gdelt", "GDELT", OnDay(1), GdeltA)
\* A currents article that shares two title words with the story; its date
\* is unparsable.
CurrentsRelated ==
    Article(0, TitleCityBudget, DescBudget, "currents", "Currents", InvalidDate, GuardianB)
\* A gdelt article that shares three title words with the guardian one.
GdeltRoundup == Article(0, TitleRoundup, NoText, "gdelt", "", NoDate, "")

ScenarioPool ==
    {GuardianBudget, GdeltBudgetPlan, CurrentsWeather, CurrentsStory,
     GdeltStory, CurrentsRelated, GdeltRoundup}

ScenarioThresholds == {20, 90}

ScenarioInit ==
    /\ hasArticles \in BOOLEAN
    /\ \E n \in 0..MaxScenarioArticles :
         \E list \in [1..n -> ScenarioPool] :
            articles = [k \in 1..n |-> [list[k] EXCEPT !.id = k]]
    /\ hasArticles = FALSE => articles = <<>>
    /\ similarityThreshold \in ScenarioThresholds
    /\ pc = "start"
    /\ loopIndex = 0
    /\ sortedArticles = <<>> /\ used = {} /\ groups = <<>>
    /\ mergedGroups = <<>> /\ merged = {} /\ deduplicatedGroups = <<>>
    /\ result = <<>>
    /\ similarities = SimilaritiesOf(articles)
    /\ article1 = Article(0, NoText, NoText, "", "", NoDate, "")
    /\ article2 = Article(0, NoText, NoText, "", "", NoDate, "")
    /\ score = 0
    /\ RouteIdle

ScenarioSpec == ScenarioInit /\ [][Next]_vars

----------------------------------------------------------------------------
(* Properties checked under ScenarioSpec *)

\* The least element of a non-empty set of indices.
First(S) == CHOOSE k \in S : \A j \in S : k <= j

\* The index, in a merged group's list, of the article the deduplication is
\* to keep for the source of article a: the first one with the most recent
\* parseable date, or the first one of the source when no date parses.
ExpectedKept(list, a) ==
    LET same == {k \in DOMAIN list : dedupSource(list[k]) = dedupSource(a)}
        parseable == {k \in same : list[k].publishedAt.kind = "date"}
    IN IF parseable = {} THEN First(same)
       ELSE First({k \in parseable :
                     \A j \in parseable : list[j].publishedAt.day <= list[k].publishedAt.day})

\* C12 (the claim as stated): for each source of a merged group the article
\* kept by the deduplication is the one with the most recent parseable
\* publishedAt of that source, the first-seen one on a tie or when no date
\* parses, whatever the order of the dates.
NewestParseableKept ==
    pc \in {"return", "done"} =>
        \A g \in DOMAIN mergedGroups :
            \A k \in DOMAIN deduplicatedGroups[g].articles :
                LET a == deduplicatedGroups[g].articles[k]
                    list == mergedGroups[g].articles
                IN a = list[ExpectedKept(list, a)]

\* The article as the caller built it (the id is the model's name for the
\* record's identity).
Content(a) == [a EXCEPT !.id = 0]

\* The contents of the articles of a group.
Contents(group) == {Content(group.articles[k]) : k \in DOMAIN group.articles}

\* The caller's list holds exactly the given articles, each once.
ListHolds(as) ==
    /\ Len(articles) = Cardinality(as)
    /\ {Content(articles[k]) : k \in DOMAIN articles} = as

\* C13: clustering the guardian article "City Council Approves New Budget",
\* the gdelt article "Council approves city budget plan" and the currents
\* article "Local weather forecast for the weekend" (in any order) with
\* threshold 0.20 returns exactly two groups: the guardian and the gdelt
\* article together, and the currents article alone.
BudgetScenarioTwoGroups ==
    (/\ pc = "done"
     /\ similarityThreshold = 20
     /\ ListHolds({GuardianBudget, GdeltBudgetPlan, CurrentsWeather})) =>
        /\ Len(result) = 2
        /\ \E g \in DOMAIN result :
              /\ Len(result[g].articles) = 2
              /\ Contents(result[g]) = {GuardianBudget, GdeltBudgetPlan}
        /\ \E g \in DOMAIN result :
              /\ Len(result[g].articles) = 1
              /\ Contents(result[g]) = {CurrentsWeather}

\* C13 witness: the call on the three articles, in the order of the claim,
\* has returned.
BudgetScenarioReturned ==
    /\ pc = "done"
    /\ similarityThreshold = 20
    /\ Len(articles) = 3
    /\ Content(articles[1]) = GuardianBudget
    /\ Content(articles[2]) = GdeltBudgetPlan
    /\ Content(articles[3]) = CurrentsWeather
    /\ Len(result) = 2

\* Two articles with the same non-empty title and description under
\* different sources and urls.
Twins(a, b) ==
    /\ a.id # b.id
    /\ a.title = b.title /\ ~TrimEmpty(a.title)
    /\ a.description = b.description /\ ~TrimEmpty(a.description)
    /\ articleSource(a) # articleSource(b)
    /\ a.url # b.url

\* Some group of gs holds both articles.
Together(gs, a, b) ==
    \E g \in DOMAIN gs : {a, b} \subseteq Range(gs[g].articles)

\* C14 (the claim as stated, for any list that holds the two articles): two
\* articles with identical non-empty title and description but different
\* source and url are in one group at threshold 0.9.
TwinsGrouped ==
    (pc = "done" /\ similarityThreshold = 90) =>
        \A n, m \in DOMAIN articles :
            Twins(articles[n], articles[m]) =>
                Together(mergedGroups, articles[n], articles[m])

\* C14 (amended): in a list of at most three articles, two articles with
\* identical non-empty title and description but different source and url
\* are placed in one group at threshold 0.9 (the groups after the merge
\* pass); when the list holds only the two, the call returns that one group
\* with both articles.
TwinsGroupedInShortList ==
    (pc = "done" /\ similarityThreshold = 90 /\ Len(articles) <= 3) =>
        \A n, m \in DOMAIN articles :
            Twins(articles[n], articles[m]) =>
                /\ Together(mergedGroups, articles[n], articles[m])
                /\ Len(articles) = 2 =>
                      /\ Len(result) = 1
                      /\ Together(result, articles[n], articles[m])

\* C14 witness: at threshold 0.9 the two articles were placed in one group,
\* beside a third article of the source of one of them that is in another
\* group.
TwinsGroupedBesideThird ==
    /\ pc = "done" /\ similarityThreshold = 90 /\ Len(articles) = 3
    /\ \E n, m, k \in DOMAIN articles :
          /\ Twins(articles[n], articles[m])
          /\ k # n /\ k # m
          /\ articleSource(articles[k]) = articleSource(articles[n])
          /\ Together(mergedGroups, articles[n], articles[m])
          /\ ~Together(mergedGroups, articles[n], articles[k])

\* C14 witness, second case: the call on the two articles alone returned
\* one group with both.
TwinsReturnedTogether ==
    /\ pc = "done" /\ similarityThreshold = 90 /\ Len(articles) = 2
    /\ Twins(articles[1], articles[2])
    /\ Len(result) = 1 /\ Len(result[1].articles) = 2

----------------------------------------------------------------------------
(* Further properties checked under Spec *)

\* Every article of the list has the same source (the lower-cased source,
\* else sourceName, that the assignment pass compares).
SingleSourceList ==
    \A n, m \in DOMAIN articles : articleSource(articles[n]) = articleSource(articles[m])

\* C15: when every input article has the same source, no comparison of the
\* assignment pass applies the 1.5 multiplier (no group counts as a group
\* of another source for the article about to be placed), and every article
\* that joined a group has an unboosted maximum similarity to the articles
\* the group held before it of at least the threshold.
SingleSourceNeverBoosted ==
    SingleSourceList =>
        /\ (pc = "phase1" /\ loopIndex <= Len(sortedArticles)) =>
              \A g \in DOMAIN groups :
                  /\ ~hasDifferentSource(sortedArticles[loopIndex], groups[g])
                  /\ effectiveSimilarity(sortedArticles[loopIndex], groups[g])
                        = maxSimilarityTo(sortedArticles[loopIndex], groups[g].articles)
        /\ \A g \in DOMAIN groups :
              \A k \in 2..Len(groups[g].articles) :
                  maxSimilarityTo(groups[g].articles[k], SubSeq(groups[g].articles, 1, k - 1))
                      >= ThresholdValue(similarityThreshold)

\* C15 witness: the assignment pass has ended on a single-source list of
\* several articles in which one article joined a group and another, whose
\* similarity times 1.5 reaches the threshold while the similarity itself
\* does not, was left out of it.
SingleSourceBoostWithheld ==
    /\ pc = "phase2"
    /\ SingleSourceList
    /\ Len(articles) = 3
    /\ \E g \in DOMAIN groups : Len(groups[g].articles) = 2
    /\ \E g, h \in DOMAIN groups :
          /\ g < h
          /\ maxSimilarityTo(groups[h].articles[1], groups[g].articles)
                < ThresholdValue(similarityThreshold)
          /\ (maxSimilarityTo(groups[h].articles[1], groups[g].articles) \div 2) * 3
                >= ThresholdValue(similarityThreshold)

----------------------------------------------------------------------------
(* calculateSimilarity on titles of growing overlap *)

\* The title positions a shared word may be written to.
MaxPosition == 4

\* A 35-word title: one word twice, 8 words of TitleLong1 (7 of them among
\* the first 20 distinct words) and 25 other words.
TitleRepeat ==
    <<"xray", "xray">> \o [i \in 1..7 |-> "term" \o ToString(i)]
        \o [i \in 1..11 |-> "word" \o ToString(i)] \o <<"term8">>
        \o [i \in 1..14 |-> "word" \o ToString(i + 11)]

\* The pairs of titles the overlap is grown on: article 1's title, and the
\* title article 2 starts from.
OverlapTitles ==
    {<<TitleBudget1, TitleWeather>>, <<TitleStopOnly, TitleWeather>>,
     <<TitleLong1, TitleRepeat>>}

\* The words of a title, normalized.
NormalizedWords(title) == Range(normalizeText(title))

\* The positions of title t2 that hold a word title t1 does not have.
NonSharedPositions(t1, t2) ==
    {i \in DOMAIN t2 : NormalizeWord(t2[i]) \notin NormalizedWords(t1)}

OverlapInit ==
    /\ \E tt \in OverlapTitles : \E d \in Descriptions :
          /\ article1 = Article(0, tt[1], d, "guardian", "Guardian", NoDate, GuardianA)
          /\ article2 = Article(0, tt[2], d, "gdelt", "GDELT", NoDate, GdeltA)
    /\ score = 0
    /\ pc = "score"
    /\ articles = <<>> /\ hasArticles = FALSE /\ similarityThreshold = 0 /\ loopIndex = 0
    /\ sortedArticles = <<>> /\ used = {} /\ groups = <<>>
    /\ mergedGroups = <<>> /\ merged = {} /\ deduplicatedGroups = <<>>
    /\ result = <<>>
    /\ similarities = <<>>
    /\ RouteIdle

\* Article 2 gets a title of the same length in which one word that
\* article 1's title does not have is replaced by a word of article 1's
\* title, and the pair is scored again.
ShareTitleWord ==
    /\ pc = "scored"
    /\ \E i \in NonSharedPositions(article1.title, article2.title) :
         \E k \in DOMAIN article1.title :
            /\ i <= MaxPosition
            /\ article2' = [article2 EXCEPT !.title[i] = article1.title[k]]
    /\ score' = calculateSimilarity(article1, article2')
    /\ UNCHANGED <<article1, pc>>
    /\ UNCHANGED groupingVars
    /\ UNCHANGED routeVars

OverlapNext == Score \/ ShareTitleWord

OverlapSpec == OverlapInit /\ [][OverlapNext]_vars

\* extractKeyTerms cuts nothing of the article's title (at most 20 distinct
\* key terms) nor of its title and description (at most 40).
Uncut(a) ==
    /\ Cardinality(extractKeyTerms(normalizeText(a.title), Len(a.title))) <= 20
    /\ Cardinality(extractKeyTerms(CombinedText(a), Len(CombinedText(a)))) <= 40

\* C16 (the claim as stated): with article 1 fixed and the description
\* equal, replacing a non-shared title word of article 2 by a word of
\* article 1's title never decreases calculateSimilarity.
TitleOverlapMonotone ==
    [][(pc = "scored" /\ pc' = "scored") => score' >= score]_vars

\* C16 (amended): the same, for articles of which extractKeyTerms cuts no
\* term (titles of at most 20 distinct key terms, title and description of
\* at most 40).
TitleOverlapMonotoneUncut ==
    [][(/\ pc = "scored" /\ pc' = "scored"
        /\ Uncut(article1) /\ Uncut(article2) /\ Uncut(article2'))
          => score' >= score]_vars

\* C16 witness: article 2's title has been rewritten to share four words
\* with article 1's title, none of the articles is cut, and the score has
\* reached its maximum without dates.
FourWordsShared ==
    /\ pc = "scored"
    /\ article1.title = TitleBudget1
    /\ article2.title # TitleWeather
    /\ Uncut(article1) /\ Uncut(article2)
    /\ Cardinality(sharedTitleWords(article1.title, article2.title)) >= 4
    /\ score = Frac(95, 100)

-----------------------------------------------------------------------------
(* The aggregate route (src/unnamed/part_000, router.get('/aggregate')) *)

\* The three providers of the fan-out, in the order of lines 2919-2944.
Providers == <<"Guardian", "GDELT", "Currents">>

\* The largest number of articles one fetch delivers.
MaxFetched == 2

MAX_ARTICLES_PER_SOURCE == 30
MIN_ARTICLES_PER_SOURCE == 10
MAX_GROUPS_PER_PAGE == 18
MAX_CONCURRENT_SUMMARIES == 3

TitleFootball == <<"football", "final", "tonight">>
TitleMarket == <<"market", "rally", "continues">>
TitleElection == <<"election", "results", "announced">>
TitleHarvest == <<"harvest", "festival", "opens">>
TitleCityVote == <<"City", "budget", "vote">>
TitleCouncilPlan == <<"Council", "approves", "plan">>

\* The description the clients put in place of a missing one.
DescNone == <<"No", "description", "available.">>
DescFootball == <<"Cup", "decided", "late">>
DescMarket == <<"Shares", "climb", "again">>
DescElection == <<"Turnout", "was", "high">>
DescHarvest == <<"Farmers", "gather", "downtown">>
DescPlan == <<"Plan", "agreed", "unanimously">>

GuardianC == "https://www.theguardian.com/c"
GdeltB == "https://gdeltproject.org/b"
GdeltC == "https://gdeltproject.org/c"
CurrentsA == "https://currentsapi.services/a"
CurrentsC == "https://currentsapi.services/c"

\* What a provider has for the query, as its client normalizes it: title,
\* description and url are non-empty, publishedAt may be "", sourceName is
\* set and there is no source field.
ProviderArticles(p) ==
    CASE p = "Guardian" ->
           << Article(0, TitleBudget1, DescNone, "", "Guardian", OnDay(8), GuardianA),
              Article(0, TitleFootball, DescFootball, "", "Guardian", OnDay(8), GuardianB),
              Article(0, TitleHarvest, DescHarvest, "", "Guardian", OnDay(1), GuardianC) >>
      [] p = "GDELT" ->
           << Article(0, TitleCouncilPlan, DescPlan, "", "GDELT", OnDay(8), GdeltA),
              Article(0, TitleMarket, DescMarket, "", "GDELT", NoDate, GdeltB),
              Article(0, TitleFootball, DescNone, "", "GDELT", OnDay(22), GdeltC) >>
      [] p = "Currents" ->
           << Article(0, TitleCityVote, DescBudget, "", "Currents", OnDay(8), CurrentsA),
              Article(0, TitleWeather, DescWeather, "", "Currents", OnDay(22), "not a url"),
              Article(0, TitleElection, DescElection, "", "Currents", InvalidDate, CurrentsC) >>

Pending == [status |-> "pending", value |-> <<>>]

\* One fetch has settled.
AnySettled == \E k \in DOMAIN Providers : fetchResults[Providers[k]].status # "pending"

\* Promise.allSettled of line 2919 has resolved: every fetch has settled.
AllSettled == \A k \in DOMAIN Providers : fetchResults[Providers[k]].status # "pending"

\* The request has been received and the three fetches are running
\* (lines 2873-2944); groupSimilarArticles has not been called.
RouteInit ==
    /\ routePc = "fetching"
    /\ fetchResults = [k \in Range(Providers) |-> Pending]
    /\ warnings = {}
    /\ groupsToSummarize = <<>> /\ batchStart = 0 /\ summaries = <<>>
    /\ summarizedGroups = <<>>
    /\ articles = <<>> /\ hasArticles = FALSE /\ similarityThreshold = 0
    /\ pc = "idle"
    /\ loopIndex = 0
    /\ sortedArticles = <<>> /\ used = {} /\ groups = <<>>
    /\ mergedGroups = <<>> /\ merged = {} /\ deduplicatedGroups = <<>>
    /\ result = <<>>
    /\ similarities = SimilaritiesOf(<<>>)
    /\ article1 = Article(0, NoText, NoText, "", "", NoDate, "")
    /\ article2 = Article(0, NoText, NoText, "", "", NoDate, "")
    /\ score = 0

\* A provider's fetch resolves with some of its articles (possibly none:
\* the clients answer [] to an empty query and to their own caught errors).
FetchFulfils(p) ==
    /\ routePc = "fetching"
    /\ fetchResults[p].status = "pending"
    /\ \E n \in 0..Min(MaxFetched, Len(ProviderArticles(p))) :
         fetchResults' = [fetchResults EXCEPT
                            ![p] = [status |-> "fulfilled",
                                    value |-> SubSeq(ProviderArticles(p), 1, n)]]
    /\ UNCHANGED <<routePc, warnings, groupsToSummarize, batchStart, summaries,
                   summarizedGroups>>
    /\ UNCHANGED pc
    /\ UNCHANGED groupingVars
    /\ UNCHANGED scorerVars

\* A provider's fetch rejects: the .catch handler of lines 2920-2943 records
\* a warning and resolves with [].
FetchFails(p) ==
    /\ routePc = "fetching"
    /\ fetchResults[p].status = "pending"
    /\ warnings' = warnings \cup {[about |-> p, text |-> "API"]}
    /\ fetchResults' = [fetchResults EXCEPT
                          ![p] = [status |-> "fulfilled", value |-> <<>>]]
    /\ UNCHANGED <<routePc, groupsToSummarize, batchStart, summaries, summarizedGroups>>
    /\ UNCHANGED pc
    /\ UNCHANGED groupingVars
    /\ UNCHANGED scorerVars

\* Lines 2947-2952.
Fetched(p) == IF fetchResults[p].status = "fulfilled" THEN fetchResults[p].value ELSE <<>>

\* Lines 3038-3046: slice(0, max(MIN, min(MAX, length))).
Balanced(list) ==
    SubSeq(list, 1, Min(Len(list),
                        Max(MIN_ARTICLES_PER_SOURCE,
                            Min(MAX_ARTICLES_PER_SOURCE, Len(list)))))

\* Lines 3063-3070.
Interleave(guardian, gdelt, currents) ==
    LET maxLength == Max(Len(guardian), Max(Len(gdelt), Len(currents)))
        at(list, i) == IF i <= Len(list) THEN <<list[i]>> ELSE <<>>
        allArticles[i \in 0..maxLength] ==
            IF i = 0 THEN <<>>
            ELSE allArticles[i - 1] \o at(guardian, i) \o at(gdelt, i) \o at(currents, i)
    IN allArticles[maxLength]

\* Lines 3073-3083.
WithSource(article) ==
    [article EXCEPT !.source =
        CASE article.sourceName = "Guardian" -> "guardian"
          [] article.sourceName = "GDELT" -> "gdelt"
          [] article.sourceName = "Currents" -> "currents"
          [] OTHER -> "unknown"]

\* articlesWithSource of line 3073 (id is the position in the list).
ArticlesWithSource ==
    LET allArticles == Interleave(Balanced(Fetched("Guardian")), Balanced(Fetched("GDELT")),
                                  Balanced(Fetched("Currents")))
    IN [k \in DOMAIN allArticles |-> [WithSource(allArticles[k]) EXCEPT !.id = k]]

\* Lines 2992-3012: a provider without articles and without a warning of
\* its own gets one.
ZeroCountWarnings ==
    {[about |-> Providers[k], text |-> "returned 0 articles"] :
        k \in {j \in DOMAIN Providers :
                 /\ Len(Fetched(Providers[j])) = 0
                 /\ ~\E w \in warnings : w.about = Providers[j]}}

\* Lines 2919-3128: once the three fetches have settled the pool is built;
\* an empty pool is answered at once (lines 3114-3123), any other is handed to
\* groupSimilarArticles with the threshold 0.20.
CombineArticles ==
    /\ routePc = "fetching"
    /\ AllSettled
    /\ warnings' = warnings \cup ZeroCountWarnings
    /\ IF Len(ArticlesWithSource) = 0
       THEN /\ routePc' = "responded"
            /\ UNCHANGED pc
            /\ UNCHANGED groupingVars
       ELSE /\ routePc' = "grouping"
            /\ articles' = ArticlesWithSource
            /\ hasArticles' = TRUE
            /\ similarityThreshold' = 20
            /\ similarities' = SimilaritiesOf(ArticlesWithSource)
            /\ pc' = "start"
            /\ UNCHANGED <<loopIndex, sortedArticles, used, groups, mergedGroups, merged,
                           deduplicatedGroups, result>>
    /\ UNCHANGED <<fetchResults, groupsToSummarize, batchStart, summaries, summarizedGroups>>
    /\ UNCHANGED scorerVars

\* The title as lines 3172-3184 normalize it (none of the modelled titles
\* carries a "breaking:" prefix or a "- the guardian" suffix).
RouteTitle(article) == normalizeText(article.title)

\* The number of characters of the words joined by single spaces.
JoinedLength(words) ==
    LET upTo[k \in 0..Len(words)] ==
            IF k = 0 THEN 0
            ELSE upTo[k - 1] + Len(words[k]) + (IF k > 1 THEN 1 ELSE 0)
    IN upTo[Len(words)]

\* Lines 3170-3202: a group of several articles whose normalized titles are
\* all the same text of more than 10 characters is removed.
KeptByFilter(group) ==
    LET firstTitle == RouteTitle(group.articles[1])
        allIdentical == \A k \in DOMAIN group.articles :
                           /\ RouteTitle(group.articles[k]) = firstTitle
                           /\ JoinedLength(RouteTitle(group.articles[k])) > 0
    IN ~(Len(group.articles) > 1 /\ allIdentical /\ JoinedLength(firstTitle) > 10)

\* Lines 3211-3214.
getUniqueSourceCount(group) ==
    Cardinality({SourceOr(group.articles[k], group.articles[k].sourceName) :
                    k \in DOMAIN group.articles})

\* Lines 3217-3228, in days.
getLatestDate(group) ==
    LET dates == {group.articles[k].publishedAt.day :
                     k \in {j \in DOMAIN group.articles :
                              /\ group.articles[j].publishedAt.kind = "date"
                              /\ group.articles[j].publishedAt.day > 0}}
    IN IF dates = {} THEN 0 ELSE CHOOSE d \in dates : \A e \in dates : e <= d

\* The comparator of lines 3244-3270 says a goes before b. The request is
\* served more than 98 hours after the newest article, where getRecencyScore
\* is 0 for every group.
GoesBefore(a, b) ==
    \/ getUniqueSourceCount(a) > getUniqueSourceCount(b)
    \/ /\ getUniqueSourceCount(a) = getUniqueSourceCount(b)
       /\ getLatestDate(a) > getLatestDate(b)

\* filteredGroups.sort(...) of line 3244: a stable sort.
SortGroups(list) ==
    LET pos(k) == Cardinality({j \in DOMAIN list :
                     \/ GoesBefore(list[j], list[k])
                     \/ /\ ~GoesBefore(list[k], list[j])
                        /\ j <= k})
    IN [n \in DOMAIN list |-> list[CHOOSE k \in DOMAIN list : pos(k) = n]]

\* Lines 3170-3309: the groups that are summarized.
GroupsToSummarize(returned) ==
    LET filteredGroups == SortGroups(SelectSeq(returned, KeptByFilter))
        multiSourceGroups == SelectSeq(filteredGroups,
                                       LAMBDA g : getUniqueSourceCount(g) >= 2)
        singleSourceGroups == SelectSeq(filteredGroups,
                                        LAMBDA g : getUniqueSourceCount(g) < 2)
        slice(list, n) == SubSeq(list, 1, Min(Len(list), n))
    IN IF Len(multiSourceGroups) >= MAX_GROUPS_PER_PAGE
       THEN slice(multiSourceGroups, MAX_GROUPS_PER_PAGE)
       ELSE IF Len(multiSourceGroups) > 0
       THEN multiSourceGroups
                \o slice(singleSourceGroups, MAX_GROUPS_PER_PAGE - Len(multiSourceGroups))
       ELSE slice(singleSourceGroups, MAX_GROUPS_PER_PAGE)

\* Lines 3128-3312: groupSimilarArticles has returned; the groups are
\* filtered, sorted and capped, and the summarizing loop is entered with i = 0.
SelectGroups ==
    /\ routePc = "grouping"
    /\ pc = "done"
    /\ groupsToSummarize' = GroupsToSummarize(result)
    /\ batchStart' = 0
    /\ summaries' = <<>>
    /\ summarizedGroups' = <<>>
    /\ routePc' = "summarizing"
    /\ UNCHANGED <<fetchResults, warnings>>
    /\ UNCHANGED pc
    /\ UNCHANGED groupingVars
    /\ UNCHANGED scorerVars

\* The positions (1-based) in groupsToSummarize of the batch that starts at i.
Batch(i) == {k \in DOMAIN groupsToSummarize : i < k /\ k <= i + MAX_CONCURRENT_SUMMARIES}

\* The summarizeArticleGroup calls that have started and not settled.
InFlight == {k \in DOMAIN summaries : summaries[k] = "pending"}

\* Lines 3315-3319: the loop condition holds; batch.map starts one
\* summarizeArticleGroup call for every group of the batch.
StartBatch ==
    /\ routePc = "summarizing"
    /\ batchStart < Len(groupsToSummarize)
    /\ summaries' = summaries \o [k \in 1..Cardinality(Batch(batchStart)) |-> "pending"]
    /\ routePc' = "awaiting"
    /\ UNCHANGED <<fetchResults, warnings, groupsToSummarize, batchStart, summarizedGroups>>
    /\ UNCHANGED pc
    /\ UNCHANGED groupingVars
    /\ UNCHANGED scorerVars

\* A summarizeArticleGroup call settles.
SummarySettles ==
    /\ \E k \in InFlight :
         \E outcome \in {"fulfilled", "rejected"} :
            summaries' = [summaries EXCEPT ![k] = outcome]
    /\ UNCHANGED <<routePc, fetchResults, warnings, groupsToSummarize, batchStart,
                   summarizedGroups>>
    /\ UNCHANGED pc
    /\ UNCHANGED groupingVars
    /\ UNCHANGED scorerVars

\* One call of the batch has settled.
BatchAnySettled == \E k \in Batch(batchStart) : summaries[k] # "pending"

\* await Promise.allSettled(...) of line 3317 resumes: every call of the
\* batch has settled.
BatchSettled == \A k \in Batch(batchStart) : summaries[k] # "pending"

\* The forEach with an empty else branch: a rejected result pushes nothing.
FinishBatchFulfilledOnly ==
    /\ routePc = "awaiting"
    /\ BatchSettled
    /\ summarizedGroups' =
          summarizedGroups \o
             SelectSeq([n \in 1..Cardinality(Batch(batchStart)) |->
                           [groupId |-> groupsToSummarize[batchStart + n].groupId,
                            articles |-> groupsToSummarize[batchStart + n].articles,
                            fallback |-> summaries[batchStart + n] # "fulfilled"]],
                       LAMBDA entry : ~entry.fallback)
    /\ warnings' = warnings
    /\ batchStart' = batchStart + MAX_CONCURRENT_SUMMARIES
    /\ routePc' = "summarizing"
    /\ UNCHANGED <<fetchResults, groupsToSummarize, summaries>>
    /\ UNCHANGED pc
    /\ UNCHANGED groupingVars
    /\ UNCHANGED scorerVars

\* Lines 3321-3421: the forEach over the batch's results, then i += 3.
FinishBatch ==
    /\ routePc = "awaiting"
    /\ BatchSettled
    /\ summarizedGroups' =
          summarizedGroups \o
             [n \in 1..Cardinality(Batch(batchStart)) |->
                 [groupId |-> groupsToSummarize[batchStart + n].groupId,
                  articles |-> groupsToSummarize[batchStart + n].articles,
                  fallback |-> summaries[batchStart + n] # "fulfilled"]]
    /\ warnings' = warnings \cup
          {[about |-> groupsToSummarize[k].groupId, text |-> "Failed to summarize group"] :
              k \in {j \in Batch(batchStart) : summaries[j] # "fulfilled"}}
    /\ batchStart' = batchStart + MAX_CONCURRENT_SUMMARIES
    /\ routePc' = "summarizing"
    /\ UNCHANGED <<fetchResults, groupsToSummarize, summaries>>
    /\ UNCHANGED pc
    /\ UNCHANGED groupingVars
    /\ UNCHANGED scorerVars

\* Lines 3315 and 3423-3488: the loop condition fails; the response is sent.
Respond ==
    /\ routePc = "summarizing"
    /\ batchStart >= Len(groupsToSummarize)
    /\ routePc' = "responded"
    /\ UNCHANGED <<fetchResults, warnings, groupsToSummarize, batchStart, summaries,
                   summarizedGroups>>
    /\ UNCHANGED pc
    /\ UNCHANGED groupingVars
    /\ UNCHANGED scorerVars

RouteNext ==
    \/ \E k \in DOMAIN Providers : FetchFulfils(Providers[k])
    \/ \E k \in DOMAIN Providers : FetchFails(Providers[k])
    \/ CombineArticles
    \/ SortArticles
    \/ AssignArticle
    \/ SkipMerged
    \/ MergeGroups
    \/ Deduplicate
    \/ ReturnGroups
    \/ SelectGroups
    \/ StartBatch
    \/ SummarySettles
    \/ FinishBatch
    \/ Respond

RouteSpec == RouteInit /\ [][RouteNext]_vars

-----------------------------------------------------------------------------
(* Properties of the aggregate route (checked under RouteSpec) *)

\* The article as its provider delivered it.
AsFetched(a) == [a EXCEPT !.id = 0, !.source = ""]

\* The articles of the pool that come from provider p, in pool order.
FromProvider(p) ==
    LET own == SelectSeq(articles, LAMBDA a : a.sourceName = p)
    IN [k \in DOMAIN own |-> AsFetched(own[k])]

\* Provider p's fetch was rejected.
Failed(p) == [about |-> p, text |-> "API"] \in warnings

\* C17: in the aggregate route groupSimilarArticles is called only after
\* all three provider fetches have settled, and whatever the combination of
\* successes and failures the pool it is called with holds, for every
\* provider, exactly the articles that provider delivered, in their order: a
\* failed provider contributes none and takes nothing away from the others.
GroupingAfterAllFetches ==
    /\ pc # "idle" => \A k \in DOMAIN Providers : fetchResults[Providers[k]].status = "fulfilled"
    /\ \A k \in DOMAIN Providers :
          Failed(Providers[k]) => fetchResults[Providers[k]].value = <<>>
    /\ routePc # "fetching" =>
          /\ \A k \in DOMAIN Providers :
                FromProvider(Providers[k]) = fetchResults[Providers[k]].value
          /\ Len(articles) > 0 => pc # "idle"

\* C17 witness: Guardian failed, GDELT and Currents delivered two articles
\* each, and groupSimilarArticles has returned groups for those four.
GroupedWithoutFailedProvider ==
    /\ pc = "done"
    /\ Failed("Guardian") /\ ~Failed("GDELT") /\ ~Failed("Currents")
    /\ Len(articles) = 4
    /\ Len(FromProvider("GDELT")) = 2 /\ Len(FromProvider("Currents")) = 2
    /\ Len(result) >= 1

\* C18: while the aggregate route summarizes groups at most 3
\* summarizeArticleGroup calls are in flight at any time, and calls are
\* started (a batch begins) only when no earlier call is still in flight.
SummariesBatched ==
    /\ [](Cardinality({k \in DOMAIN summaries : summaries[k] = "pending"}) <= 3)
    /\ [][Len(summaries') > Len(summaries) =>
             \A k \in DOMAIN summaries : summaries[k] # "pending"]_vars

\* C18 witness: the three calls of the first batch have settled and been
\* collected, and a call of the second batch is in flight.
SecondBatchInFlight ==
    /\ routePc = "awaiting"
    /\ batchStart = 3
    /\ Len(summarizedGroups) = 3
    /\ \A k \in 1..3 : summaries[k] # "pending"
    /\ \E k \in DOMAIN summaries : k > 3 /\ summaries[k] = "pending"

-----------------------------------------------------------------------------
(* Frame and identifiers of groupSimilarArticles (checked under ScenarioSpec) *)

\* The articles of the groups of a list of groups.
ArticlesIn(gs) == UNION {Range(gs[k].articles) : k \in DOMAIN gs}

\* C19: groupSimilarArticles is pure with respect to its input: no step of
\* the call changes the caller's list (same elements, same order, same field
\* values), and the articles of the returned groups are the caller's records
\* as they were passed.
InputListUntouched ==
    /\ [][articles' = articles /\ hasArticles' = hasArticles]_vars
    /\ [](pc = "done" => ArticlesIn(result) \subseteq Range(articles))

\* C19 witness: a call has returned for a list that was not in source
\* order, after a merge of two groups and the removal of a duplicate.
UnsortedListGrouped ==
    /\ pc = "done"
    /\ sortedArticles # articles
    /\ Len(mergedGroups) < Len(groups)
    /\ Cardinality(ArticlesIn(result)) < Len(articles)

\* The groupId values of a list of groups are pairwise distinct.
DistinctIds(gs) == \A i, j \in DOMAIN gs : i # j => gs[i].groupId # gs[j].groupId

\* C20: within one call of groupSimilarArticles the groupId values of the
\* returned groups are pairwise distinct, also after groups were merged.
GroupIdsDistinct == pc = "done" => DistinctIds(result)

\* C20 witness: a call has merged two groups and returned two or more.
MergedGroupsReturned ==
    /\ pc = "done"
    /\ Len(mergedGroups) < Len(groups)
    /\ Len(result) >= 2

-----------------------------------------------------------------------------
(* Properties of the assignment pass (lines 246-300) *)

\* The groups of gs that qualify for the article and lack its source.
CrossSourceQualifying(article, gs, threshold) ==
    {k \in DOMAIN gs :
        /\ articleSource(article) \notin GroupSources(gs[k].articles)
        /\ effectiveSimilarity(article, gs[k]) >= ThresholdValue(threshold)}

\* The groups of gs that qualify for the article and hold its source.
SameSourceQualifying(article, gs, threshold) ==
    {k \in DOMAIN gs :
        /\ articleSource(article) \in GroupSources(gs[k].articles)
        /\ effectiveSimilarity(article, gs[k]) >= ThresholdValue(threshold)}

\* gs with the article added at the end of group k.
Joined(gs, k, article) == [gs EXCEPT ![k].articles = Append(@, article)]

\* C21: in the assignment pass, whenever some qualifying group lacks the
\* article's source the article is put into such a group, the one of highest
\* effectiveSimilarity and the earliest created among equals, even when a
\* qualifying group of its own source scores higher.
CrossSourceGroupPreferred ==
    [][pc = "phase1" =>
         LET article == sortedArticles[loopIndex]
             cross == CrossSourceQualifying(article, groups, similarityThreshold)
         IN cross # {} =>
              \E k \in cross :
                 /\ \A j \in cross :
                       \/ effectiveSimilarity(article, groups[j])
                             < effectiveSimilarity(article, groups[k])
                       \/ /\ effectiveSimilarity(article, groups[j])
                                = effectiveSimilarity(article, groups[k])
                          /\ k <= j
                 /\ groups' = Joined(groups, k, article)]_vars

\* The group without the article placed last in it.
BeforeJoin(group) == [group EXCEPT !.articles = SubSeq(@, 1, Len(@) - 1)]

\* C21 witness: the article placed last went into a qualifying group of
\* another source although a qualifying group of its own source scored
\* higher.
CrossSourceChosenOverHigherScore ==
    /\ pc = "phase2" /\ loopIndex = 1
    /\ LET article == sortedArticles[Len(sortedArticles)]
       IN \E k, s \in DOMAIN groups :
             /\ Len(groups[k].articles) >= 2
             /\ groups[k].articles[Len(groups[k].articles)] = article
             /\ articleSource(article) \notin GroupSources(BeforeJoin(groups[k]).articles)
             /\ s # k
             /\ articleSource(article) \in GroupSources(groups[s].articles)
             /\ maxSimilarityTo(article, groups[s].articles)
                   >= ThresholdValue(similarityThreshold)
             /\ maxSimilarityTo(article, groups[s].articles)
                   > effectiveSimilarity(article, BeforeJoin(groups[k]))

\* C22: in the assignment pass an article starts a new singleton group if
\* and only if no existing group qualifies (effectiveSimilarity >= the
\* threshold), for every threshold the caller passes, 0 included.
NewGroupIffNoneQualifies ==
    [][pc = "phase1" =>
         LET article == sortedArticles[loopIndex]
             qualifying ==
                 {k \in DOMAIN groups :
                     effectiveSimilarity(article, groups[k])
                         >= ThresholdValue(similarityThreshold)}
         IN (groups' = Append(groups, [groupId |-> Len(groups) + 1,
                                       articles |-> <<article>>]))
               <=> qualifying = {}]_vars

-----------------------------------------------------------------------------
(* Properties of the summarization batches (part_000 lines 3311-3421) *)

\* The groups whose batch has been processed.
Processed == 1..Min(batchStart, Len(groupsToSummarize))

\* C30: every selected group whose batch has been processed has exactly one
\* entry of summarizedGroups, at the group's own position, with the group's
\* groupId and articles; the entry is a fallback entry, with a warning that
\* names the group, exactly when the group's call rejected; and when the
\* response is sent every selected group has its entry.
OneEntryPerSelectedGroup ==
    /\ routePc \in {"summarizing", "awaiting", "responded"} =>
          /\ DOMAIN summarizedGroups = Processed
          /\ \A n \in Processed :
                /\ summarizedGroups[n].groupId = groupsToSummarize[n].groupId
                /\ summarizedGroups[n].articles = groupsToSummarize[n].articles
                /\ summarizedGroups[n].fallback <=> summaries[n] = "rejected"
                /\ summaries[n] = "rejected" =>
                      [about |-> groupsToSummarize[n].groupId,
                       text |-> "Failed to summarize group"] \in warnings
    /\ routePc = "responded" => Len(summarizedGroups) = Len(groupsToSummarize)

\* C30 witness: the response is sent after two batches; a call of the first
\* batch rejected and its group has a fallback entry, and a group of the
\* second batch has its entry from a fulfilled call.
RejectedCallKeepsBatchesGoing ==
    /\ routePc = "responded"
    /\ Len(groupsToSummarize) > MAX_CONCURRENT_SUMMARIES
    /\ \E n \in 1..MAX_CONCURRENT_SUMMARIES :
          summaries[n] = "rejected" /\ summarizedGroups[n].fallback
    /\ \E n \in DOMAIN summarizedGroups :
          /\ n > MAX_CONCURRENT_SUMMARIES
          /\ summaries[n] = "fulfilled" /\ ~summarizedGroups[n].fallback

-----------------------------------------------------------------------------
(* Calls on lists of articles that meet in the merge pass *)

MaxMergeArticles == 4

TitleNewPlan == <<"Council", "approves", "new", "plan">>
TitleStorms == <<"Weekend", "weather", "forecast", "predicts", "storms">>

\* A currents roundup that shares three title words with the budget article
\* and three with the weather article.
CurrentsRoundup == Article(0, TitleRoundup, NoText, "currents", "", NoDate, "")
GdeltBudget == Article(0, TitleBudget1, NoText, "gdelt", "", NoDate, "")
GdeltWeather == Article(0, TitleStorms, NoText, "gdelt", "", NoDate, "")
\* A guardian article that shares three title words with the budget article
\* and one with the roundup.
GuardianPlan == Article(0, TitleNewPlan, NoText, "guardian", "", NoDate, "")

MergePool == {CurrentsRoundup, GdeltBudget, GdeltWeather, GuardianPlan}

MergeThresholds == {20, 90}

MergeInit ==
    /\ hasArticles \in BOOLEAN
    /\ \E n \in 0..MaxMergeArticles :
         \E list \in [1..n -> MergePool] :
            articles = [k \in 1..n |-> [list[k] EXCEPT !.id = k]]
    /\ hasArticles = FALSE => articles = <<>>
    /\ similarityThreshold \in MergeThresholds
    /\ pc = "start"
    /\ loopIndex = 0
    /\ sortedArticles = <<>> /\ used = {} /\ groups = <<>>
    /\ mergedGroups = <<>> /\ merged = {} /\ deduplicatedGroups = <<>>
    /\ result = <<>>
    /\ similarities = SimilaritiesOf(articles)
    /\ article1 = Article(0, NoText, NoText, "", "", NoDate, "")
    /\ article2 = Article(0, NoText, NoText, "", "", NoDate, "")
    /\ score = 0
    /\ RouteIdle

MergeSpec == MergeInit /\ [][Next]_vars

-----------------------------------------------------------------------------
(* Calls on lists of articles whose titles share two words *)

MaxTitleArticles == 4
TitleBridge == <<"Plans", "for", "the", "harbour", "bridge">>

\* A guardian article whose title shares the words "for" and "the", and no
\* key term, with the weather title.
GuardianBridge == Article(0, TitleBridge, NoText, "guardian", "", NoDate, "")

TitleWordsPool == {CurrentsWeather, GuardianBridge, CurrentsRoundup, GdeltBudget}

TitleWordsThresholds == {20, 90}

TitleWordsInit ==
    /\ hasArticles \in BOOLEAN
    /\ \E n \in 0..MaxTitleArticles :
         \E list \in [1..n -> TitleWordsPool] :
            articles = [k \in 1..n |-> [list[k] EXCEPT !.id = k]]
    /\ hasArticles = FALSE => articles = <<>>
    /\ similarityThreshold \in TitleWordsThresholds
    /\ pc = "start"
    /\ loopIndex = 0
    /\ sortedArticles = <<>> /\ used = {} /\ groups = <<>>
    /\ mergedGroups = <<>> /\ merged = {} /\ deduplicatedGroups = <<>>
    /\ result = <<>>
    /\ similarities = SimilaritiesOf(articles)
    /\ article1 = Article(0, NoText, NoText, "", "", NoDate, "")
    /\ article2 = Article(0, NoText, NoText, "", "", NoDate, "")
    /\ score = 0
    /\ RouteIdle

TitleWordsSpec == TitleWordsInit /\ [][Next]_vars

-----------------------------------------------------------------------------
(* Properties of articles whose titles share two words (lines 155-173) *)

\* The two titles share at least 2 words longer than 2 characters.
TwoTitleWordsShared(a, b) ==
    /\ ~Falsy(a.title) /\ ~Falsy(b.title)
    /\ Cardinality(sharedTitleWords(a.title, b.title)) >= 2

\* The groups without the article's source that hold an article whose
\* title shares 2 words with the article's.
CrossSourceTitleMatches(article, gs) ==
    {k \in DOMAIN gs :
        /\ articleSource(article) \notin GroupSources(gs[k].articles)
        /\ \E n \in DOMAIN gs[k].articles : TwoTitleWordsShared(article, gs[k].articles[n])}

\* C29: two articles whose titles share at least 2 words longer than 2
\* characters score at least 0.19, and at the threshold 0.20 an article that
\* finds such a title in a group without its source joins a group: it never
\* starts a new one.
TwoSharedTitleWordsJoin ==
    /\ [](\A a, b \in Range(articles) :
             (pc # "idle" /\ hasArticles /\ TwoTitleWordsShared(a, b))
                => similarities[<<a.id, b.id>>] >= Frac(19, 100))
    /\ [][(/\ pc = "phase1"
           /\ similarityThreshold = 20
           /\ CrossSourceTitleMatches(sortedArticles[loopIndex], groups) # {})
             => Len(groups') = Len(groups)]_vars

\* C29 witness: at the threshold 0.20 the article placed last joined a group
\* without its source whose best score for it is below 0.20, on a title that
\* shares exactly 2 words with its own.
JoinedOnTwoTitleWords ==
    /\ pc = "phase2" /\ loopIndex = 1
    /\ similarityThreshold = 20
    /\ LET article == sortedArticles[Len(sortedArticles)]
       IN \E k \in DOMAIN groups :
             /\ Len(groups[k].articles) >= 2
             /\ groups[k].articles[Len(groups[k].articles)] = article
             /\ CrossSourceTitleMatches(article, <<BeforeJoin(groups[k])>>) # {}
             /\ \A n \in DOMAIN BeforeJoin(groups[k]).articles :
                   /\ Cardinality(sharedTitleWords(article.title,
                                                   groups[k].articles[n].title)) <= 2
                   /\ similarities[<<article.id, groups[k].articles[n].id>>] < Frac(20, 100)

-----------------------------------------------------------------------------
(* Properties of the merge pass (lines 308-389) *)

\* The lower-cased source keys of a phase-1 group.
SourcesOfGroup(k) ==
    {toLowerCase(SourceOr(groups[k].articles[n], "unknown")) :
        n \in DOMAIN groups[k].articles}

\* The phase-1 groups whose articles make up merged group m.
PartsOf(m) ==
    {k \in DOMAIN groups :
        Range(groups[k].articles) \cap Range(mergedGroups[m].articles) # {}}

\* C23: the merge pass never brings together two phase-1 groups that share a
\* source: the groups that make up one merged group (the anchor and every
\* group it absorbed) have pairwise disjoint sources.
MergedPartsSourceDisjoint ==
    \A m \in DOMAIN mergedGroups :
       \A j, k \in PartsOf(m) :
          j # k => SourcesOfGroup(j) \cap SourcesOfGroup(k) = {}

\* C23 witness: an anchor absorbed a group and left a later group alone
\* that is similar enough to the anchor and shares no source with the anchor
\* itself, only with the absorbed group.
AbsorbedSourceBlocksMerge ==
    /\ pc = "dedup"
    /\ \E m \in DOMAIN mergedGroups :
          \E i, j \in PartsOf(m) :
             \E k \in DOMAIN groups :
                /\ i < j /\ j < k
                /\ groups[i].groupId = mergedGroups[m].groupId
                /\ k \notin PartsOf(m)
                /\ SourcesOfGroup(k) \cap SourcesOfGroup(i) = {}
                /\ SourcesOfGroup(k) \cap SourcesOfGroup(j) # {}
                /\ groupSimilarity(groups[i], groups[k]) >= mergeThreshold(similarityThreshold)

\* The maximum pairwise similarity of phase-1 groups i and j.
MaxPairSimilarity(i, j) ==
    LET sims == {similarities[<<a.id, b.id>>] :
                    a \in Range(groups[i].articles), b \in Range(groups[j].articles)}
    IN CHOOSE m \in sims : \A x \in sims : x <= m

\* Some article of i and some article of j have titles that share at least
\* 3 words of more than 2 characters.
SomeTitlesClose(i, j) ==
    \E a \in Range(groups[i].articles), b \in Range(groups[j].articles) :
       /\ ~Falsy(a.title) /\ ~Falsy(b.title)
       /\ Cardinality(sharedTitleWords(a.title, b.title)) >= 3

\* Maximum pairwise similarity, plus 0.3 when some titles are close.
MergeScore(i, j) ==
    MaxPairSimilarity(i, j) + (IF SomeTitlesClose(i, j) THEN Frac(30, 100) ELSE 0)

\* The phase-1 groups absorbed by another group.
Absorbed ==
    {k \in DOMAIN groups :
        \E m \in DOMAIN mergedGroups :
           k \in PartsOf(m) /\ mergedGroups[m].groupId # groups[k].groupId}

\* C24: when anchor i meets a later group j that is not yet absorbed and
\* shares no source with what i holds so far, j is merged into i exactly
\* when the maximum pairwise similarity of the two groups, plus 0.3 if some
\* pair of their titles shares 3 or more words longer than 2 characters, is
\* at least 0.85 times the threshold. Every group is absorbed at most once,
\* and an absorbed group never becomes an anchor.
MergeDecision ==
    /\ [][(pc = "phase2" /\ loopIndex \notin merged) =>
            LET i == loopIndex
                absorbed == (merged' \ merged) \ {i}
                known(j) == SourcesOfGroup(i)
                               \cup UNION {SourcesOfGroup(h) : h \in {x \in absorbed : x < j}}
            IN \A j \in DOMAIN groups :
                  (j > i /\ j \notin merged /\ SourcesOfGroup(j) \cap known(j) = {})
                     => (j \in absorbed
                           <=> MergeScore(i, j)
                                  >= (Frac(similarityThreshold, 100) \div 100) * 85)]_vars
    /\ [](pc = "dedup" =>
            /\ \A k \in DOMAIN groups :
                  Cardinality({m \in DOMAIN mergedGroups : k \in PartsOf(m)}) = 1
            /\ \A k \in Absorbed :
                  \A m \in DOMAIN mergedGroups : mergedGroups[m].groupId # groups[k].groupId)

\* C24 witness: an anchor absorbed a group that reaches 0.85 times the
\* threshold only through the 0.3 of close titles, and left alone a
\* source-disjoint group whose score stays below.
MergedByTitleBoost ==
    /\ pc = "dedup"
    /\ \E m \in DOMAIN mergedGroups :
          \E i, j \in PartsOf(m) :
             \E k \in DOMAIN groups :
                /\ groups[i].groupId = mergedGroups[m].groupId
                /\ i < j /\ j < k
                /\ MaxPairSimilarity(i, j) < (Frac(similarityThreshold, 100) \div 100) * 85
                /\ MergeScore(i, j) >= (Frac(similarityThreshold, 100) \div 100) * 85
                /\ k \notin PartsOf(m)
                /\ SourcesOfGroup(k) \cap (SourcesOfGroup(i) \cup SourcesOfGroup(j)) = {}
                /\ MergeScore(i, k) < (Frac(similarityThreshold, 100) \div 100) * 85

-----------------------------------------------------------------------------
(* The same-domain bonus (checked under ScorerSpec) *)

\* C25: of two pairs of articles with text that differ only in that both
\* urls of one pair parse and share a hostname, calculateSimilarity scores
\* the same-hostname pair strictly higher (by the bonus of 0.05), unless its
\* score is clamped at 1.
SameHostnameScoresHigher ==
    (/\ pc = "scored"
     /\ ~TrimEmpty(CombinedText(article1)) /\ ~TrimEmpty(CombinedText(article2))
     /\ Hostname(article1.url) # ""
     /\ Hostname(article1.url) = Hostname(article2.url)
     /\ score < Unit)
       => \A u \in Urls :
             Hostname(u) # Hostname(article1.url)
                => score > calculateSimilarity(article1, [article2 EXCEPT !.url = u])

\* The anchor of merged group m: the phase-1 group it has its groupId from.
AnchorOf(m) == CHOOSE i \in DOMAIN groups : groups[i].groupId = mergedGroups[m].groupId

\* C28: in the merge pass a group is compared with the articles the anchor
\* had after the assignment pass and with no others: every group an anchor
\* absorbed reaches 0.85 times the threshold against the anchor's own
\* articles, and articles absorbed earlier count for the disjointness of
\* sources only.
ComparedWithAnchorOnly ==
    \A m \in DOMAIN mergedGroups :
       \A k \in PartsOf(m) :
          k # AnchorOf(m) =>
             MergeScore(AnchorOf(m), k) >= (Frac(similarityThreshold, 100) \div 100) * 85

\* C28 witness: an anchor absorbed a group and left a later group alone
\* that shares no source with either, is similar enough to the absorbed
\* group and not to the anchor's own articles.
SimilarToAbsorbedOnly ==
    /\ pc = "dedup"
    /\ \E m \in DOMAIN mergedGroups :
          \E j \in PartsOf(m) :
             \E k \in DOMAIN groups :
                /\ AnchorOf(m) < j /\ j < k
                /\ k \notin PartsOf(m)
                /\ SourcesOfGroup(k) \cap (SourcesOfGroup(AnchorOf(m)) \cup SourcesOfGroup(j)) = {}
                /\ MergeScore(j, k) >= (Frac(similarityThreshold, 100) \div 100) * 85
                /\ MergeScore(AnchorOf(m), k) < (Frac(similarityThreshold, 100) \div 100) * 85

-----------------------------------------------------------------------------
(* Properties of the deduplication (lines 396-426) *)

\* The source values of a list of articles as line 400 reads them.
SourceValues(list) == {SourceOr(list[k], "unknown") : k \in DOMAIN list}

\* The merged group a returned group was made from.
MergedOf(group) ==
    mergedGroups[CHOOSE m \in DOMAIN mergedGroups :
                    mergedGroups[m].groupId = group.groupId]

\* C26: each returned group holds exactly as many articles as there are
\* distinct source values among the articles it held before deduplication,
\* and the same source values: no source is lost, every further article of a
\* source is dropped. For an input of one source value every returned group
\* has exactly one article.
OneArticlePerSourceValue ==
    pc = "done" =>
       /\ \A r \in DOMAIN result :
             /\ SourceValues(result[r].articles) = SourceValues(MergedOf(result[r]).articles)
             /\ Len(result[r].articles)
                   = Cardinality(SourceValues(MergedOf(result[r]).articles))
       /\ Cardinality(SourceValues(articles)) = 1 =>
             \A r \in DOMAIN result : Len(result[r].articles) = 1

\* C26 witness: a returned group of two articles was made from three
\* articles of two source values.
ExtraSameSourceArticleDropped ==
    /\ pc = "done"
    /\ \E r \in DOMAIN result :
          /\ Len(MergedOf(result[r]).articles) = 3
          /\ Cardinality(SourceValues(MergedOf(result[r]).articles)) = 2
          /\ Len(result[r].articles) = 2

\* C27: the steps of groupSimilarArticles agree on what the same source is:
\* two articles of one merged group have the same key in the assignment and
\* merge passes (lower-cased) and in the classification (lower-cased and
\* trimmed) exactly when the deduplication (raw key) keeps only one of them;
\* so a returned group is multi-source exactly when it holds 2 or more
\* articles.
SourceKeyConsistent ==
    pc = "done" =>
       /\ \A m \in DOMAIN mergedGroups :
             \A a, b \in Range(mergedGroups[m].articles) :
                /\ (toLowerCase(SourceOr(a, "unknown")) = toLowerCase(SourceOr(b, "unknown")))
                      <=> (SourceOr(a, "unknown") = SourceOr(b, "unknown"))
                /\ (trim(toLowerCase(SourceOr(a, "unknown")))
                       = trim(toLowerCase(SourceOr(b, "unknown"))))
                      <=> (SourceOr(a, "unknown") = SourceOr(b, "unknown"))
       /\ \A r \in DOMAIN result :
             (Cardinality({trim(toLowerCase(SourceOr(a, "unknown"))) :
                              a \in Range(result[r].articles)}) >= 2)
                <=> Len(result[r].articles) >= 2

====
